---- MODULE Spec2Model ----
(***************************************************************************)
(* Authentication / session core of the task manager API:                  *)
(*   backend/routes/auth.js      register, login, refresh, logout-all,     *)
(*                               /me, session revocation, change-password  *)
(*   backend/middleware/auth.js  token issue, authenticate (Request Gate)  *)
(*   backend/models/User.js      lockout counters, password change stamp   *)
(*   backend/models/Session.js   (src/unnamed/part_000) session store      *)
(*                                                                         *)
(* Time is Date.now() in whole seconds.  Every duration of the code is a   *)
(* whole number of seconds and a JWT carries iat/exp in seconds, so two    *)
(* events of one second get the same stamp, as they do in a JWT.           *)
(***************************************************************************)
EXTENDS Integers, Sequences, FiniteSets, TLC

\* ---------------------------------------------------------------- bounds
MaxTicks == 2
GateTicks == 1
LifeTicks == 2
MaxRotations == 1
MaxSessions == 2
MaxRequests == 2
CacheRoom == 6
ReuseSessions == 3

\* ------------------------------------------------------ program constants
AccessLifetime == 1800
RefreshLifetime == 604800
SessionExpiry == 604800
SessionExpiryRemember == 2592000
MaxAttempts == 5
LockTime == 1800
MaxConcurrentSessions == 5
PasswordSkew == 1
WeekSeconds == 604800
DaySeconds == 86400
SixHours == 21600

\* ------------------------------------------------------------ input sets
Alice == "alice"
Emails == {Alice, "bob"}
Passwords == {"Passw0rd1", "Passw0rd2"}
Jumps == {1, LockTime, RefreshLifetime - 1}
LockoutJumps == {1, LockTime}
GateJumps == {2, LockTime}
ConcJumps == {1}
LifeJumps == {1, SessionExpiry - 1}
SkewJumps == {1, 2}

\* authRateLimit(5, 15) of register, authRateLimit(10, 15) of login
RegisterLimit == 5
LoginLimit == 10
WindowMinutes == 15
windowMs == WindowMinutes * 60       \* in seconds, as all times here
Routes == {"register", "login"}
maxAttempts(route) == IF route = "register" THEN RegisterLimit ELSE LoginLimit

\* the source addresses whose requests the throttle is followed for
Addresses == {"10.0.0.1", "10.0.0.2"}
ThrottleJumps == {1, windowMs}

\* the requests that are followed one await at a time
Requests == 1..MaxRequests

NoDate == 0 - 1
NoSid == 0

VARIABLES
  now,        \* Date.now(), seconds
  ticks,      \* number of clock advances so far
  users,      \* Credential Store: email -> User document
  sessions,   \* Session Store: sessionId -> Session document
  uuid,       \* number of values drawn from crypto.randomUUID()
  issued,     \* tokens handed to clients in responses
  resp,       \* the response of the last completed request
  consumed,   \* history: refresh tokens presented to a successful Refresh
  replayed,   \* history: sessions for which a rotated-away token was presented
  streak,     \* history: consecutive wrong-password answers per account
  inflight,   \* requests suspended at an await
  attempts,   \* the throttle Map of each route: address -> count, firstAttempt
  admitted,   \* history: per route and address, the times of admitted requests
  client      \* the browser: localStorage, AuthProvider state, API calls

vars == <<now, ticks, users, sessions, uuid, issued, resp, consumed,
          replayed, streak, inflight, attempts, admitted, client>>

\* ------------------------------------------------------------ Token Codec
NoToken ==
  [typ |-> "none", sig |-> "none", userId |-> "", sessionId |-> NoSid,
   tokenFamily |-> 0, iat |-> 0, exp |-> 0]

ForgedToken ==
  [typ |-> "access", sig |-> "forged", userId |-> "alice", sessionId |-> 1,
   tokenFamily |-> 0, iat |-> 0, exp |-> AccessLifetime]

\* jwt.sign(payload, JWT_SECRET, {expiresIn: "30m"}): a deterministic function
\* of the payload and the issue second
generateAccessToken(u, sid, t) ==
  [typ |-> "access", sig |-> "access", userId |-> u, sessionId |-> sid,
   tokenFamily |-> 0, iat |-> t, exp |-> t + AccessLifetime]

\* jwt.sign(payload, JWT_REFRESH_SECRET, {expiresIn: "7d"})
generateRefreshToken(u, sid, fam, t) ==
  [typ |-> "refresh", sig |-> "refresh", userId |-> u, sessionId |-> sid,
   tokenFamily |-> fam, iat |-> t, exp |-> t + RefreshLifetime]

\* jwt.verify(token, secret): "invalid" on a bad signature, else "expired"
\* once the clock second has reached exp, else "ok"
jwtVerify(tok, secret, t) ==
  IF tok.sig # secret THEN "invalid"
  ELSE IF t >= tok.exp THEN "expired"
  ELSE "ok"

\* crypto.createHash("sha256").update(token).digest("hex")
Sha256(tok) == <<"sha256", tok.sessionId, tok.tokenFamily, tok.iat, tok.exp, tok.sig>>

\* bcrypt.hash / bcrypt.compare
BcryptHash(pw) == <<"bcrypt", pw>>
comparePassword(u, pw) == users[u].password = BcryptHash(pw)

\* --------------------------------------------------------------- helpers
Min(a, b) == IF a < b THEN a ELSE b

RECURSIVE FilterOut(_, _)
FilterOut(seq, x) ==
  IF seq = <<>> THEN <<>>
  ELSE IF Head(seq) = x THEN FilterOut(Tail(seq), x)
  ELSE <<Head(seq)>> \o FilterOut(Tail(seq), x)

LastN(seq, n) ==
  IF Len(seq) > n THEN SubSeq(seq, Len(seq) - n + 1, Len(seq)) ELSE seq

\* a response: what the handler answered (op, code, status) to which request
\* (tok, email), and what held when the request arrived (wasLocked .. used)
\* the documents and tokens of a response body: the "user" object, the
\* "session" / "sessions" objects and the "tokens" pair
NoBody == [user |-> {}, session |-> {}, tokens |-> {}]

NoResp ==
  [op |-> "none", code |-> "", status |-> 0, tok |-> NoToken, email |-> "",
   sid |-> NoSid, gate |-> "", wasLocked |-> FALSE, lockedUntil |-> NoDate,
   pwOk |-> FALSE, before |-> 0, replay |-> FALSE, used |-> FALSE,
   target |-> NoSid, error |-> "", body |-> NoBody, ip |-> "",
   retryAfter |-> 0, family |-> 0, found |-> FALSE]

\* the browser before the page is loaded: empty localStorage, the reducer's
\* initialState, no API call under way, no auth:logout event dispatched
NoStorage == [accessToken |-> NoToken, refreshToken |-> NoToken, user |-> ""]

initialState ==
  [user |-> "", tokens |-> {}, isAuthenticated |-> FALSE, isLoading |-> TRUE]

NoCall ==
  [pc |-> "idle", header |-> NoToken, retry |-> FALSE, refreshToken |-> NoToken,
   code |-> "", sends |-> 0, refreshes |-> 0, overlap |-> FALSE]

NoClient ==
  [localStorage |-> NoStorage, state |-> initialState, init |-> "unmounted",
   sent |-> NoToken, calls |-> [r \in Requests |-> NoCall], logouts |-> 0]

\* a request handled one await at a time that has not started; email and doc
\* are the account and the user document a login has read
Idle ==
  [pc |-> "idle", tok |-> NoToken, code |-> "", overlap |-> FALSE, t0 |-> 0,
   email |-> "", doc |-> {}]

\* ------------------------------------------------------------- User model
\* virtual isLocked
isLocked(usr, t) ==
  usr.accountLockedUntil # NoDate /\ usr.accountLockedUntil > t

\* changedPasswordAfter(JWTTimestamp)
changedPasswordAfter(usr, iat) ==
  IF usr.passwordChangedAt # NoDate
  THEN iat < usr.passwordChangedAt
  ELSE FALSE

\* variant: the lock is set one failure later
incLoginAttemptsLate(usr, t) ==
  IF usr.accountLockedUntil # NoDate /\ usr.accountLockedUntil < t
  THEN [usr EXCEPT !.failedLoginAttempts = 1, !.accountLockedUntil = NoDate]
  ELSE [usr EXCEPT !.failedLoginAttempts = @ + 1,
          !.accountLockedUntil =
             IF usr.failedLoginAttempts + 1 > MaxAttempts /\ ~isLocked(usr, t)
             THEN t + LockTime ELSE @]

\* incLoginAttempts: the document after the updateOne
incLoginAttempts(usr, t) ==
  IF usr.accountLockedUntil # NoDate /\ usr.accountLockedUntil < t
  THEN [usr EXCEPT !.failedLoginAttempts = 1, !.accountLockedUntil = NoDate]
  ELSE [usr EXCEPT
          !.failedLoginAttempts = @ + 1,
          !.accountLockedUntil =
             IF usr.failedLoginAttempts + 1 >= MaxAttempts /\ ~isLocked(usr, t)
             THEN t + LockTime ELSE @]

\* incLoginAttempts called on a document read earlier: the test of the old
\* lock and the decision to lock use the copy in memory (doc), $inc and $set
\* are applied to the stored document (usr)
incLoginAttemptsFrom(doc, usr, t) ==
  IF doc.accountLockedUntil # NoDate /\ doc.accountLockedUntil < t
  THEN [usr EXCEPT !.failedLoginAttempts = 1, !.accountLockedUntil = NoDate]
  ELSE [usr EXCEPT
          !.failedLoginAttempts = @ + 1,
          !.accountLockedUntil =
             IF doc.failedLoginAttempts + 1 >= MaxAttempts /\ ~isLocked(doc, t)
             THEN t + LockTime ELSE @]

\* resetLoginAttempts: $unset of both fields (the counter defaults to 0)
resetLoginAttempts(usr) ==
  [usr EXCEPT !.failedLoginAttempts = 0, !.accountLockedUntil = NoDate]

\* variant: the cache keeps its oldest entries
addSessionOldest(usr, sid) ==
  [usr EXCEPT !.activeSessions =
     SubSeq(Append(FilterOut(@, sid), sid), 1,
            Min(Len(FilterOut(@, sid)) + 1, MaxConcurrentSessions))]

\* addSession
addSession(usr, sid) ==
  [usr EXCEPT !.activeSessions =
     LastN(Append(FilterOut(@, sid), sid), MaxConcurrentSessions)]

\* removeSession
\* variant: the cache keeps the id
removeSessionKeep(usr, sid) == usr

removeSession(usr, sid) ==
  [usr EXCEPT !.activeSessions = FilterOut(@, sid)]

\* removeAllSessions
removeAllSessions(usr) == [usr EXCEPT !.activeSessions = <<>>]

\* new User(userData) followed by save(): password hashed, defaults applied
NewUser(pw, t) ==
  [password |-> BcryptHash(pw), failedLoginAttempts |-> 0,
   accountLockedUntil |-> NoDate, passwordChangedAt |-> t,
   isActive |-> TRUE, activeSessions |-> <<>>]

\* ---------------------------------------------------------- Session model
\* variant: the age of the session does not count
calculateRiskScoreAgeless(createdAt, lastAccessedAt, hasFingerprint, t) ==
  LET idle == IF t - lastAccessedAt > DaySeconds THEN 15
              ELSE IF t - lastAccessedAt > SixHours THEN 5 ELSE 0
      fp == IF hasFingerprint THEN 0 ELSE 10
  IN Min(idle + fp, 100)

\* calculateRiskScore, run by the pre-save hook
calculateRiskScore(createdAt, lastAccessedAt, hasFingerprint, t) ==
  LET age == IF t - createdAt > WeekSeconds THEN 20
             ELSE IF t - createdAt > DaySeconds THEN 10 ELSE 0
      idle == IF t - lastAccessedAt > DaySeconds THEN 15
              ELSE IF t - lastAccessedAt > SixHours THEN 5 ELSE 0
      fp == IF hasFingerprint THEN 0 ELSE 10
  IN Min(age + idle + fp, 100)

\* new Session({...}) followed by save()
NewSession(u, rt, fam, expiry, t) ==
  [userId |-> u, refreshTokenHash |-> Sha256(rt), tokenFamily |-> fam,
   isActive |-> TRUE, expiresAt |-> t + expiry, lastAccessedAt |-> t,
   createdAt |-> t, riskScore |-> calculateRiskScore(t, t, TRUE, t),
   reason |-> "", breach |-> FALSE]

\* deactivate(reason): save() of isActive and the metadata entries
deactivate(s, why) == [s EXCEPT !.isActive = FALSE, !.reason = why]

\* variant: save() writes the whole document as the request read it, an
\* active session
updateLastAccessedWhole(s, t) ==
  [s EXCEPT !.lastAccessedAt = t, !.isActive = TRUE, !.reason = "",
            !.riskScore = calculateRiskScore(s.createdAt, t, TRUE, t)]

\* updateLastAccessed(): save() of lastAccessedAt and the recomputed score
updateLastAccessed(s, t) ==
  [s EXCEPT !.lastAccessedAt = t,
            !.riskScore = calculateRiskScore(s.createdAt, t, TRUE, t)]

\* variant: the filter has no userId
revokeAllForUserEveryone(ss, u, why) ==
  [sid \in DOMAIN ss |->
     IF ss[sid].isActive THEN deactivate(ss[sid], why) ELSE ss[sid]]

\* revokeAllForUser(userId, reason): updateMany over the active sessions
revokeAllForUser(ss, u, why) ==
  [sid \in DOMAIN ss |->
     IF ss[sid].userId = u /\ ss[sid].isActive
     THEN deactivate(ss[sid], why) ELSE ss[sid]]

\* detectTokenReuse: the find({tokenFamily, isActive, sessionId: {$ne}})
OtherActiveInFamily(ss, fam, cur) ==
  {sid \in DOMAIN ss :
     ss[sid].tokenFamily = fam /\ ss[sid].isActive /\ sid # cur}

\* variant: the session that asks counts as well
detectTokenReuseSelf(ss, fam, cur) ==
  \E sid \in DOMAIN ss : ss[sid].tokenFamily = fam /\ ss[sid].isActive

detectTokenReuse(ss, fam, cur) == OtherActiveInFamily(ss, fam, cur) # {}

\* detectTokenReuse: the updateMany({tokenFamily}) run on detection
revokeFamily(ss, fam) ==
  [sid \in DOMAIN ss |->
     IF ss[sid].tokenFamily = fam
     THEN [ss[sid] EXCEPT !.isActive = FALSE, !.riskScore = 100, !.breach = TRUE]
     ELSE ss[sid]]

\* POST /refresh: Session.findOne({sessionId, refreshTokenHash, isActive, expiresAt > now})
findRefreshSession(ss, tok, t) ==
  /\ tok.sessionId \in DOMAIN ss
  /\ ss[tok.sessionId].refreshTokenHash = Sha256(tok)
  /\ ss[tok.sessionId].isActive
  /\ ss[tok.sessionId].expiresAt > t

\* variant: the lookup ignores isActive
findGateSessionEnded(ss, tok, t) ==
  /\ tok.sessionId \in DOMAIN ss
  /\ ss[tok.sessionId].userId = tok.userId
  /\ ss[tok.sessionId].expiresAt > t

\* variant: the lookup ignores expiresAt
findGateSessionStale(ss, tok, t) ==
  /\ tok.sessionId \in DOMAIN ss
  /\ ss[tok.sessionId].userId = tok.userId
  /\ ss[tok.sessionId].isActive

\* authenticate: Session.findOne({sessionId, userId, isActive, expiresAt > now})
findGateSession(ss, tok, t) ==
  /\ tok.sessionId \in DOMAIN ss
  /\ ss[tok.sessionId].userId = tok.userId
  /\ ss[tok.sessionId].isActive
  /\ ss[tok.sessionId].expiresAt > t

\* ------------------------------------------------------------ Request Gate
\* variant: the lock is tested before the account status
authenticateLockFirst(tok, ss, us, t) ==
  IF tok.typ = "none" THEN "TOKEN_MISSING"
  ELSE IF jwtVerify(tok, "access", t) = "expired" THEN "TOKEN_EXPIRED"
  ELSE IF jwtVerify(tok, "access", t) = "invalid" THEN "TOKEN_INVALID"
  ELSE IF ~findGateSession(ss, tok, t) THEN "SESSION_INVALID"
  ELSE IF tok.userId \notin DOMAIN us THEN "USER_NOT_FOUND"
  ELSE IF isLocked(us[tok.userId], t) THEN "ACCOUNT_LOCKED"
  ELSE IF ~us[tok.userId].isActive THEN "ACCOUNT_DEACTIVATED"
  ELSE IF changedPasswordAfter(us[tok.userId], tok.iat) THEN "PASSWORD_CHANGED"
  ELSE "OK"

\* authenticate: the code of the first failed check, or "OK"
authenticate(tok, ss, us, t) ==
  IF tok.typ = "none" THEN "TOKEN_MISSING"
  ELSE IF jwtVerify(tok, "access", t) = "expired" THEN "TOKEN_EXPIRED"
  ELSE IF jwtVerify(tok, "access", t) = "invalid" THEN "TOKEN_INVALID"
  ELSE IF ~findGateSession(ss, tok, t) THEN "SESSION_INVALID"
  ELSE IF tok.userId \notin DOMAIN us THEN "USER_NOT_FOUND"
  ELSE IF ~us[tok.userId].isActive THEN "ACCOUNT_DEACTIVATED"
  ELSE IF isLocked(us[tok.userId], t) THEN "ACCOUNT_LOCKED"
  ELSE IF changedPasswordAfter(us[tok.userId], tok.iat) THEN "PASSWORD_CHANGED"
  ELSE "OK"

\* authenticate: what it writes to the Session Store (the deactivation on
\* PASSWORD_CHANGED, the lastAccessedAt touch on admission)
gateSessions(tok, ss, us, t) ==
  LET code == authenticate(tok, ss, us, t) IN
  IF code = "PASSWORD_CHANGED"
  THEN [ss EXCEPT ![tok.sessionId] = deactivate(@, "password_changed")]
  ELSE IF code = "OK"
  THEN [ss EXCEPT ![tok.sessionId] = updateLastAccessed(@, t)]
  ELSE ss

GateResp(op, tok, code) ==
  [NoResp EXCEPT !.op = op, !.tok = tok, !.gate = code, !.code = code,
                 !.status = 401, !.email = tok.userId, !.sid = tok.sessionId]

\* tokens a client can put in a request: any token handed out so far, a token
\* with a bad signature, or none
Bearer == {tok \in issued : tok.typ = "access"} \cup {NoToken, ForgedToken}
Presentable == {tok \in issued : tok.typ = "refresh"} \cup {NoToken, ForgedToken}

RotatedAway(tok) ==
  /\ tok \in consumed
  /\ tok.sessionId \in DOMAIN sessions
  /\ sessions[tok.sessionId].refreshTokenHash # Sha256(tok)

\* ------------------------------------------------ documents in responses
\* "delete ret.<field>": the object without these fields
Drop(doc, fields) == [f \in DOMAIN doc \ fields |-> doc[f]]

\* userSchema toJSON transform: delete ret.password (and __v)
toJSON(usr) == Drop(usr, {"password"})

\* a user document as a query returns it: password is "select: false", only
\* .select("+password") loads it
findById(usr) == Drop(usr, {"password"})

\* variant: the handler hands out the session document it has just saved
sessionCreatedWhole(sid, s) == [id |-> sid] @@ s

\* session: { id, expiresAt } of register and login
sessionCreated(sid, s) == [id |-> sid, expiresAt |-> s.expiresAt]

\* session: { id, expiresAt, lastAccessedAt, deviceInfo } of GET /me
sessionCurrent(sid, s) ==
  [id |-> sid, expiresAt |-> s.expiresAt, lastAccessedAt |-> s.lastAccessedAt]

\* Session.findActiveByUser(userId)
findActiveByUser(ss, u, t) ==
  {sid \in DOMAIN ss : ss[sid].userId = u /\ ss[sid].isActive
                                          /\ ss[sid].expiresAt > t}

\* the entries of GET /sessions
sessionListed(sid, s, cur) ==
  [id |-> sid, lastAccessedAt |-> s.lastAccessedAt, createdAt |-> s.createdAt,
   expiresAt |-> s.expiresAt, isCurrent |-> sid = cur]

\* no response is on its way to a client: handlers run one at a time
Quiet == resp.op = "none"

\* res.json(...): the client takes the response
Deliver ==
  /\ ~Quiet
  /\ resp' = NoResp
  /\ UNCHANGED <<now, ticks, users, sessions, uuid, issued, consumed, replayed,
                 streak, inflight>>

  /\ UNCHANGED <<attempts, admitted, client>>
\* ------------------------------------------------------------------ clock
Tick(d, max) ==
  /\ Quiet
  /\ ticks < max
  /\ now' = now + d
  /\ ticks' = ticks + 1
  /\ UNCHANGED <<users, sessions, uuid, issued, resp, consumed, replayed,
                 streak, inflight>>

  /\ UNCHANGED <<attempts, admitted, client>>
\* ------------------------------------------------------- authRateLimit
\* "Clean old entries"
Clean(m, t) ==
  [k \in {a \in DOMAIN m : ~(t - m[a].firstAttempt > windowMs)} |-> m[k]]

\* variant: the window is over once its last instant is reached
rateLimitedEarly(m, ip, t, max) ==
  /\ ip \in DOMAIN m
  /\ ~(t - m[ip].firstAttempt >= windowMs)
  /\ m[ip].count >= max

\* the request is answered 429
rateLimited(m, ip, t, max) ==
  /\ ip \in DOMAIN Clean(m, t)
  /\ ~(t - m[ip].firstAttempt > windowMs)
  /\ m[ip].count >= max

\* the Map after a request from ip has passed through the middleware
countAttempt(m, ip, t, max) ==
  LET c == Clean(m, t) IN
  IF ip \notin DOMAIN c
  THEN c @@ (ip :> [count |-> 1, firstAttempt |-> t])
  ELSE IF t - c[ip].firstAttempt > windowMs
  THEN [c EXCEPT ![ip] = [count |-> 1, firstAttempt |-> t]]
  ELSE IF c[ip].count >= max THEN c
  ELSE [c EXCEPT ![ip].count = @ + 1]

\* Math.ceil((firstAttempt + windowMs - now) / 1000), in seconds
retryAfter(entry, t) == entry.firstAttempt + windowMs - t

\* the request comes from an address outside Addresses, under its limit: of
\* the counted addresses only the sweep of old entries is seen
Unthrottled(route) ==
  /\ attempts' = [attempts EXCEPT ![route] = Clean(@, now)]
  /\ UNCHANGED <<admitted, client>>

\* next(): the request goes on to the handler
Counted(route, ip) ==
  /\ attempts' = [attempts EXCEPT ![route] =
                     countAttempt(@, ip, now, maxAttempts(route))]
  /\ admitted' = [admitted EXCEPT ![route][ip] = Append(@, now)]
  /\ UNCHANGED client

\* res.status(429): the handler is not run
Rejected(route, ip) ==
  /\ Quiet
  /\ resp' = [NoResp EXCEPT !.op = route, !.code = "RATE_LIMIT_EXCEEDED",
                             !.status = 429, !.ip = ip,
                             !.retryAfter = retryAfter(attempts[route][ip], now)]
  /\ attempts' = [attempts EXCEPT ![route] =
                     countAttempt(@, ip, now, maxAttempts(route))]
  /\ UNCHANGED <<now, ticks, users, sessions, uuid, issued, consumed, replayed,
                 streak, inflight, admitted, client>>

\* --------------------------------------------------- createUserSession
HasRoom == Cardinality(DOMAIN sessions) < MaxSessions
NewSid == uuid + 1
NewFamily == uuid + 2

sessionLifetime(rememberMe) ==
  IF rememberMe THEN SessionExpiryRemember ELSE SessionExpiry

\* variant: every session of a user is put in one family
createUserSessionOneFamily(ss, u, rememberMe, t) ==
  ss @@ (NewSid :> NewSession(u, generateRefreshToken(u, NewSid, 0, t),
                              0, sessionLifetime(rememberMe), t))

\* the Session Store after createUserSession's session.save()
createUserSession(ss, u, rememberMe, t) ==
  ss @@ (NewSid :> NewSession(u, generateRefreshToken(u, NewSid, NewFamily, t),
                              NewFamily, sessionLifetime(rememberMe), t))

\* variant: the session is taken back when the list cannot be saved
createUserSessionRolledBack(ss, u, rememberMe, t) == ss

\* the Session Store when "await user.addSession(sessionId)" rejects:
\* session.save() has been carried out, nothing follows it
createUserSessionRejected(ss, u, rememberMe, t) ==
  createUserSession(ss, u, rememberMe, t)

NewTokens(u, sid, fam, t) ==
  {generateAccessToken(u, sid, t), generateRefreshToken(u, sid, fam, t)}

\* the body of a 201 of register and of a 200 of login: user.toJSON() less
\* its password, the new pair, the new session's id and expiry
CreatedBody(doc, ss, e) ==
  [user |-> {Drop(toJSON(doc), {"password"})},
   session |-> {sessionCreated(NewSid, ss[NewSid])},
   tokens |-> NewTokens(e, NewSid, NewFamily, now)]

\* ------------------------------------------------------- POST /register
RegisterHandler(e, pw) ==
  /\ Quiet
  /\ IF e \in DOMAIN users
     THEN /\ resp' = [NoResp EXCEPT !.op = "register", !.code = "USER_EXISTS",
                                     !.status = 409, !.email = e]
          /\ UNCHANGED <<users, sessions, uuid, issued>>
     ELSE /\ HasRoom
          /\ users' = users @@ (e :> addSession(NewUser(pw, now), NewSid))
          /\ sessions' = createUserSession(sessions, e, FALSE, now)
          /\ uuid' = uuid + 2
          /\ issued' = issued \cup NewTokens(e, NewSid, NewFamily, now)
          /\ resp' = [NoResp EXCEPT !.op = "register", !.code = "OK",
                                     !.status = 201, !.email = e,
                                     !.sid = NewSid,
                                     !.body = CreatedBody(users'[e], sessions', e)]
  /\ UNCHANGED <<now, ticks, consumed, replayed, streak, inflight>>

\* POST /register when user.addSession() rejects: the user and the session
\* are saved, the catch block answers 500 and no token leaves the server
RegisterCacheFails(e, pw) ==
  /\ Quiet
  /\ e \notin DOMAIN users
  /\ HasRoom
  /\ users' = users @@ (e :> NewUser(pw, now))
  /\ sessions' = createUserSessionRejected(sessions, e, FALSE, now)
  /\ uuid' = uuid + 2
  /\ resp' = [NoResp EXCEPT !.op = "register", !.code = "REGISTRATION_ERROR",
                             !.status = 500, !.email = e, !.sid = NewSid]
  /\ Unthrottled("register")
  /\ UNCHANGED <<now, ticks, issued, consumed, replayed, streak, inflight>>

\* a registration from an address the throttle keeps no count for
Register(e, pw) ==
  /\ RegisterHandler(e, pw)
  /\ Unthrottled("register")

\* a registration from a counted address, through authRateLimit(5, 15)
ThrottledRegister(ip, e, pw) ==
  IF rateLimited(attempts["register"], ip, now, maxAttempts("register"))
  THEN Rejected("register", ip)
  ELSE RegisterHandler(e, pw) /\ Counted("register", ip)

\* -------------------------------- POST /register, one await at a time
\* The accounts of the model are named by one value; it stands for the email
\* or the username two registrations have in common: both are in the $or
\* filter of the existence check and both fields are declared unique.

\* variant: the schema declares no unique index
uniqueIndexNone(us, e) == FALSE

\* the unique index refuses a second document with the value (E11000)
uniqueIndex(us, e) == e \in DOMAIN us

\* res.status(...) of each answer of POST /register
RegisterStatus(code) ==
  IF code = "OK" THEN 201
  ELSE IF code \in {"USER_EXISTS", "DUPLICATE_KEY"} THEN 409
  ELSE 500

\* up to "await User.findOne({$or: [{email}, {username}]})" and the answer
\* to an existing user; otherwise new User(userData) and the call of save()
RegisterFind(r, e, pw) ==
  /\ inflight[r].pc = "idle"
  /\ inflight' = [inflight EXCEPT ![r] =
       [Idle EXCEPT !.pc = IF e \in DOMAIN users THEN "done" ELSE "insert",
                    !.code = IF e \in DOMAIN users THEN "USER_EXISTS" ELSE "",
                    !.t0 = now, !.email = e, !.doc = {NewUser(pw, now)},
                    !.overlap = \E q \in Requests \ {r} :
                                   /\ inflight[q].pc = "insert"
                                   /\ inflight[q].email = e]]
  /\ UNCHANGED <<now, ticks, users, sessions, uuid, issued, resp, consumed,
                 replayed, streak, attempts, admitted, client>>

\* the insert of "await user.save()" reaches the store; a duplicate key is
\* answered by the catch block
RegisterInsert(r) ==
  LET e == inflight[r].email IN
  /\ inflight[r].pc = "insert"
  /\ IF uniqueIndex(users, e)
     THEN /\ inflight' = [inflight EXCEPT ![r].pc = "done",
                                          ![r].code = "DUPLICATE_KEY"]
          /\ UNCHANGED users
     ELSE /\ inflight' = [inflight EXCEPT ![r].pc = "session"]
          /\ users' = [o \in DOMAIN users \cup {e} |->
                         IF o = e THEN CHOOSE d \in inflight[r].doc : TRUE
                         ELSE users[o]]
  /\ UNCHANGED <<now, ticks, sessions, uuid, issued, resp, consumed, replayed,
                 streak, attempts, admitted, client>>

\* "await createUserSession(user, req)" and the 201
RegisterSession(r) ==
  LET e == inflight[r].email IN
  /\ inflight[r].pc = "session"
  /\ HasRoom
  /\ sessions' = createUserSession(sessions, e, FALSE, now)
  /\ users' = [users EXCEPT ![e] = addSession(@, NewSid)]
  /\ uuid' = uuid + 2
  /\ issued' = issued \cup NewTokens(e, NewSid, NewFamily, now)
  /\ inflight' = [inflight EXCEPT ![r].pc = "done", ![r].code = "OK"]
  /\ UNCHANGED <<now, ticks, resp, consumed, replayed, streak, attempts,
                 admitted, client>>

\* ---------------------------------------------------------- POST /login
LoginCode(e, pw) ==
  IF e \notin DOMAIN users THEN "INVALID_CREDENTIALS"
  ELSE IF isLocked(users[e], now) THEN "ACCOUNT_LOCKED"
  ELSE IF ~users[e].isActive THEN "ACCOUNT_DEACTIVATED"
  ELSE IF ~comparePassword(e, pw) THEN "INVALID_CREDENTIALS"
  ELSE "OK"

\* variant: a locked account is answered like a wrong password
LoginStatusFlat(code) == IF code = "OK" THEN 200 ELSE 401

\* res.status(...) of each answer of POST /login
LoginStatus(code) ==
  IF code = "OK" THEN 200 ELSE IF code = "ACCOUNT_LOCKED" THEN 423 ELSE 401

\* variant: the unknown email gets a message of its own
LoginErrorTelling(e, pw) ==
  IF e \notin DOMAIN users THEN "User not found"
  ELSE IF isLocked(users[e], now)
  THEN "Account is temporarily locked due to multiple failed login attempts"
  ELSE IF ~users[e].isActive THEN "Account is deactivated"
  ELSE IF ~comparePassword(e, pw) THEN "Invalid email or password"
  ELSE ""

\* the "error" text of each answer of POST /login, by the return that sends it
LoginError(e, pw) ==
  IF e \notin DOMAIN users THEN "Invalid email or password"
  ELSE IF isLocked(users[e], now)
  THEN "Account is temporarily locked due to multiple failed login attempts"
  ELSE IF ~users[e].isActive THEN "Account is deactivated"
  ELSE IF ~comparePassword(e, pw) THEN "Invalid email or password"
  ELSE ""

\* the body of the answer to a login, less the tokens and documents of a 200
LoginBody(e, pw) ==
  [status |-> LoginStatus(LoginCode(e, pw)), code |-> LoginCode(e, pw),
   error |-> LoginError(e, pw),
   lockedUntil |-> IF LoginCode(e, pw) = "ACCOUNT_LOCKED"
                   THEN users[e].accountLockedUntil ELSE NoDate]

LoginWithin(e, pw, rememberMe, room) ==
  LET code == LoginCode(e, pw)
      known == e \in DOMAIN users
      lock == IF known THEN users[e].accountLockedUntil ELSE NoDate
      r == [NoResp EXCEPT !.op = "login", !.code = code,
                          !.status = LoginStatus(code), !.email = e,
                          !.error = LoginError(e, pw),
                          !.wasLocked = lock # NoDate /\ now < lock,
                          !.lockedUntil = lock,
                          !.pwOk = known /\ comparePassword(e, pw),
                          !.before = Cardinality(DOMAIN sessions)]
  IN
  /\ Quiet
  /\ IF code = "OK"
     THEN /\ Cardinality(DOMAIN sessions) < room
          /\ users' = [users EXCEPT ![e] =
                         addSession(IF @.failedLoginAttempts > 0
                                    THEN resetLoginAttempts(@) ELSE @, NewSid)]
          /\ sessions' = createUserSession(sessions, e, rememberMe, now)
          /\ uuid' = uuid + 2
          /\ issued' = issued \cup NewTokens(e, NewSid, NewFamily, now)
          /\ resp' = [r EXCEPT !.sid = NewSid,
                                !.body = CreatedBody(addSession(users[e], NewSid),
                                                     sessions', e)]
          /\ streak' = [streak EXCEPT ![e] = 0]
     ELSE /\ IF known /\ code = "INVALID_CREDENTIALS"
             THEN /\ users' = [users EXCEPT ![e] = incLoginAttempts(@, now)]
                  /\ streak' = [streak EXCEPT ![e] =
                                  IF lock # NoDate THEN 1 ELSE @ + 1]
             ELSE /\ UNCHANGED users
                  /\ streak' = [streak EXCEPT ![e] = 0]
          /\ resp' = r
          /\ UNCHANGED <<sessions, uuid, issued>>
  /\ UNCHANGED <<now, ticks, consumed, replayed, inflight>>

\* the login handler, with the Session Store bounded to MaxSessions documents
LoginHandler(e, pw, rememberMe) == LoginWithin(e, pw, rememberMe, MaxSessions)

\* POST /login when user.addSession() rejects: the counters are reset, the
\* session is saved, the catch block answers 500
LoginCacheFails(e, pw, rememberMe) ==
  /\ Quiet
  /\ LoginCode(e, pw) = "OK"
  /\ HasRoom
  /\ users' = [users EXCEPT ![e] = IF @.failedLoginAttempts > 0
                                    THEN resetLoginAttempts(@) ELSE @]
  /\ sessions' = createUserSessionRejected(sessions, e, rememberMe, now)
  /\ uuid' = uuid + 2
  /\ streak' = [streak EXCEPT ![e] = 0]
  /\ resp' = [NoResp EXCEPT !.op = "login", !.code = "LOGIN_ERROR",
                             !.status = 500, !.email = e, !.sid = NewSid]
  /\ Unthrottled("login")
  /\ UNCHANGED <<now, ticks, issued, consumed, replayed, inflight>>

\* ------------------------------------ POST /login, one await at a time
\* a login that will not succeed, up to "await User.findOne(...)" and the
\* checks on the document it returns
LoginFind(r, e, pw) ==
  LET code == LoginCode(e, pw) IN
  /\ inflight[r].pc = "idle"
  /\ code # "OK"
  /\ inflight' = [inflight EXCEPT ![r] =
       [Idle EXCEPT !.pc = IF code = "INVALID_CREDENTIALS" /\ e \in DOMAIN users
                           THEN "inc" ELSE "done",
                    !.code = code, !.t0 = now, !.email = e,
                    !.doc = IF e \in DOMAIN users THEN {users[e]} ELSE {},
                    !.overlap = \E q \in Requests \ {r} :
                                   inflight[q].pc = "inc" /\ inflight[q].email = e]]
  /\ UNCHANGED <<now, ticks, users, sessions, uuid, issued, resp, consumed,
                 replayed, streak, attempts, admitted, client>>

\* "await user.incLoginAttempts()" after the password did not match: the
\* updateOne reaches the store, the 401 is sent
LoginInc(r) ==
  LET e == inflight[r].email IN
  /\ inflight[r].pc = "inc"
  /\ users' = [users EXCEPT ![e] =
                 incLoginAttemptsFrom(CHOOSE d \in inflight[r].doc : TRUE, @, now)]
  /\ inflight' = [inflight EXCEPT ![r].pc = "done"]
  /\ UNCHANGED <<now, ticks, sessions, uuid, issued, resp, consumed, replayed,
                 streak, attempts, admitted, client>>

\* a login from an address the throttle keeps no count for
Login(e, pw, rememberMe) ==
  /\ LoginHandler(e, pw, rememberMe)
  /\ Unthrottled("login")

\* a login from a counted address, through authRateLimit(10, 15)
ThrottledLogin(ip, e, pw, rememberMe) ==
  IF rateLimited(attempts["login"], ip, now, maxAttempts("login"))
  THEN Rejected("login", ip)
  ELSE LoginHandler(e, pw, rememberMe) /\ Counted("login", ip)

\* -------------------------------------------------------- POST /refresh
\* the checks up to the session lookup
refreshCode(tok, ss, t) ==
  IF tok.typ = "none" THEN "REFRESH_TOKEN_MISSING"
  ELSE IF jwtVerify(tok, "refresh", t) # "ok" THEN "REFRESH_TOKEN_INVALID"
  ELSE IF ~findRefreshSession(ss, tok, t) THEN "SESSION_INVALID"
  ELSE IF detectTokenReuse(ss, tok.tokenFamily, tok.sessionId)
  THEN "TOKEN_REUSE_DETECTED"
  ELSE "OK"

\* variant: the rotation gives the session another week
rotateExtend(s, u, sid, fam, t) ==
  [s EXCEPT !.refreshTokenHash = Sha256(generateRefreshToken(u, sid, fam, t)),
            !.lastAccessedAt = t, !.expiresAt = t + SessionExpiry,
            !.riskScore = calculateRiskScore(s.createdAt, t, TRUE, t)]

\* variant: the rotation moves the session to a family of its own
rotateNewFamily(s, u, sid, fam, t) ==
  [s EXCEPT !.refreshTokenHash = Sha256(generateRefreshToken(u, sid, fam, t)),
            !.lastAccessedAt = t, !.tokenFamily = fam + 1,
            !.riskScore = calculateRiskScore(s.createdAt, t, TRUE, t)]

\* session.refreshTokenHash = ...; session.lastAccessedAt = new Date(); save()
rotate(s, u, sid, fam, t) ==
  [s EXCEPT !.refreshTokenHash = Sha256(generateRefreshToken(u, sid, fam, t)),
            !.lastAccessedAt = t,
            !.riskScore = calculateRiskScore(s.createdAt, t, TRUE, t)]

\* variant: a refresh token that finds no live session ends the session it names
refreshSessionsStrict(tok, ss, t) ==
  LET code == refreshCode(tok, ss, t) IN
  IF code = "TOKEN_REUSE_DETECTED" THEN revokeFamily(ss, tok.tokenFamily)
  ELSE IF code = "OK"
  THEN [ss EXCEPT ![tok.sessionId] =
          rotate(@, @.userId, tok.sessionId, tok.tokenFamily, t)]
  ELSE IF code = "SESSION_INVALID" /\ tok.sessionId \in DOMAIN ss
  THEN [ss EXCEPT ![tok.sessionId] = deactivate(@, "security_breach")]
  ELSE ss

\* the Session Store after the whole handler
refreshSessions(tok, ss, t) ==
  LET code == refreshCode(tok, ss, t) IN
  IF code = "TOKEN_REUSE_DETECTED" THEN revokeFamily(ss, tok.tokenFamily)
  ELSE IF code = "OK"
  THEN [ss EXCEPT ![tok.sessionId] =
          rotate(@, @.userId, tok.sessionId, tok.tokenFamily, t)]
  ELSE ss

RefreshResp(tok, code) ==
  [NoResp EXCEPT !.op = "refresh", !.tok = tok, !.code = code,
                 !.body = IF code = "OK"
                          THEN [NoBody EXCEPT !.tokens =
                                  NewTokens(sessions[tok.sessionId].userId,
                                            tok.sessionId, tok.tokenFamily, now)]
                          ELSE NoBody,
                 !.status = IF code = "OK" THEN 200 ELSE 401,
                 !.sid = tok.sessionId, !.email = tok.userId,
                 !.replay = RotatedAway(tok), !.used = tok \in consumed]

Refresh(tok) ==
  LET code == refreshCode(tok, sessions, now) IN
  /\ Quiet
  /\ sessions' = refreshSessions(tok, sessions, now)
  /\ issued' = IF code = "OK"
               THEN issued \cup NewTokens(sessions[tok.sessionId].userId,
                                          tok.sessionId, tok.tokenFamily, now)
               ELSE issued
  /\ consumed' = IF code = "OK" THEN consumed \cup {tok} ELSE consumed
  /\ replayed' = IF RotatedAway(tok) THEN replayed \cup {tok.sessionId}
                 ELSE replayed
  /\ resp' = RefreshResp(tok, code)
  /\ UNCHANGED <<now, ticks, users, uuid, streak, inflight>>

  /\ UNCHANGED <<attempts, admitted, client>>
\* -------------------------------- POST /refresh, one await at a time
\* Requests are handled concurrently: each await of the handler is a point
\* where another request may run.

InFlight(r) == inflight[r].pc \in {"detect", "save"}

\* up to "await Session.findOne(...)"
RefreshFind(r, tok) ==
  LET code == IF tok.typ = "none" THEN "REFRESH_TOKEN_MISSING"
              ELSE IF jwtVerify(tok, "refresh", now) # "ok"
              THEN "REFRESH_TOKEN_INVALID"
              ELSE IF ~findRefreshSession(sessions, tok, now)
              THEN "SESSION_INVALID"
              ELSE "OK"
  IN
  /\ inflight[r].pc = "idle"
  /\ inflight' = [inflight EXCEPT ![r] =
       [pc |-> IF code = "OK" THEN "detect" ELSE "done",
        tok |-> tok, code |-> code, t0 |-> now, email |-> "", doc |-> {},
        overlap |-> \E q \in Requests \ {r} :
                       InFlight(q) /\ inflight[q].tok = tok]]
  /\ UNCHANGED <<now, ticks, users, sessions, uuid, issued, resp, consumed,
                 replayed, streak>>

  /\ UNCHANGED <<attempts, admitted, client>>
\* "await Session.detectTokenReuse(...)"; with no reuse the handler signs the
\* new pair and calls save() before it suspends again
RefreshDetect(r) ==
  LET tok == inflight[r].tok IN
  /\ inflight[r].pc = "detect"
  /\ IF detectTokenReuse(sessions, tok.tokenFamily, tok.sessionId)
     THEN /\ sessions' = revokeFamily(sessions, tok.tokenFamily)
          /\ inflight' = [inflight EXCEPT ![r].pc = "done",
                                          ![r].code = "TOKEN_REUSE_DETECTED"]
     ELSE /\ inflight' = [inflight EXCEPT ![r].pc = "save", ![r].t0 = now]
          /\ UNCHANGED sessions
  /\ UNCHANGED <<now, ticks, users, uuid, issued, resp, consumed, replayed,
                 streak>>

  /\ UNCHANGED <<attempts, admitted, client>>
\* the write of "await session.save()" reaches the store; the 200 is sent
RefreshSave(r) ==
  LET tok == inflight[r].tok
      t0 == inflight[r].t0 IN
  /\ inflight[r].pc = "save"
  /\ sessions' = [sessions EXCEPT ![tok.sessionId] =
                    rotate(@, @.userId, tok.sessionId, tok.tokenFamily, t0)]
  /\ issued' = issued \cup NewTokens(sessions[tok.sessionId].userId,
                                     tok.sessionId, tok.tokenFamily, t0)
  /\ consumed' = consumed \cup {tok}
  /\ inflight' = [inflight EXCEPT ![r].pc = "done", ![r].code = "OK"]
  /\ UNCHANGED <<now, ticks, users, uuid, resp, replayed, streak>>

  /\ UNCHANGED <<attempts, admitted, client>>
\* ---------------------------------------------------------- GET /auth/me
Me(tok) ==
  LET code == authenticate(tok, sessions, users, now) IN
  /\ Quiet
  /\ sessions' = gateSessions(tok, sessions, users, now)
  /\ resp' = [GateResp("me", tok, code) EXCEPT
                !.status = IF code = "OK" THEN 200 ELSE 401,
                !.body = IF code = "OK"
                         THEN [NoBody EXCEPT
                                 !.user = {toJSON(findById(users[tok.userId]))},
                                 !.session = {sessionCurrent(tok.sessionId,
                                                sessions'[tok.sessionId])}]
                         ELSE NoBody]
  /\ UNCHANGED <<now, ticks, users, uuid, issued, consumed, replayed, streak,
                 inflight>>

  /\ UNCHANGED <<attempts, admitted, client>>
\* ---------------------------------------------------- GET /auth/sessions
Sessions(tok) ==
  LET code == authenticate(tok, sessions, users, now) IN
  /\ Quiet
  /\ sessions' = gateSessions(tok, sessions, users, now)
  /\ resp' = [GateResp("sessions", tok, code) EXCEPT
                !.status = IF code = "OK" THEN 200 ELSE 401,
                !.body = IF code = "OK"
                         THEN [NoBody EXCEPT !.session =
                                 {sessionListed(sid, sessions'[sid], tok.sessionId) :
                                    sid \in findActiveByUser(sessions', tok.userId, now)}]
                         ELSE NoBody]
  /\ UNCHANGED <<now, ticks, users, uuid, issued, consumed, replayed, streak,
                 inflight>>

  /\ UNCHANGED <<attempts, admitted, client>>
\* ---------------------------------------------------------- POST /logout
\* The gate starts session.updateLastAccessed() and does not wait for it; the
\* handler then calls deactivate() on the same document, a second save().
\*   "saved":    the second save is carried out (a Mongoose without the
\*               parallel-save guard); the handler goes on to removeSession
\*   "rejected": the second save is refused (ParallelSaveError), the handler
\*               answers 500; the first save wrote lastAccessedAt only
\*   "carried":  as "rejected", but the first save computes its changes after
\*               deactivate() has set isActive and the metadata, and writes them
LogoutOutcomes == {"saved", "rejected", "carried"}

Logout(tok, how) ==
  LET code == authenticate(tok, sessions, users, now)
      gated == gateSessions(tok, sessions, users, now) IN
  /\ Quiet
  /\ IF code # "OK"
     THEN /\ how = "saved"
          /\ sessions' = gated
          /\ UNCHANGED users
          /\ resp' = GateResp("logout", tok, code)
     ELSE IF how = "saved"
     THEN /\ sessions' = [gated EXCEPT ![tok.sessionId] =
                            deactivate(@, "user_logout")]
          /\ users' = [users EXCEPT ![tok.userId] =
                         removeSession(@, tok.sessionId)]
          /\ resp' = [GateResp("logout", tok, code) EXCEPT !.status = 200]
     ELSE /\ sessions' = IF how = "carried"
                         THEN [gated EXCEPT ![tok.sessionId] =
                                 deactivate(@, "user_logout")]
                         ELSE gated
          /\ UNCHANGED users
          /\ resp' = [GateResp("logout", tok, code) EXCEPT
                        !.code = "LOGOUT_ERROR", !.status = 500]
  /\ UNCHANGED <<now, ticks, uuid, issued, consumed, replayed, streak, inflight>>

  /\ UNCHANGED <<attempts, admitted, client>>
\* POST /logout whose answer is sent while the write of the gate's
\* updateLastAccessed() is still on its way to the store
LogoutAhead(r, tok) ==
  /\ Quiet
  /\ inflight[r].pc = "idle"
  /\ authenticate(tok, sessions, users, now) = "OK"
  /\ sessions' = [sessions EXCEPT ![tok.sessionId] =
                    deactivate(@, "user_logout")]
  /\ users' = [users EXCEPT ![tok.userId] = removeSession(@, tok.sessionId)]
  /\ resp' = [GateResp("logout", tok, "OK") EXCEPT !.status = 200]
  /\ inflight' = [inflight EXCEPT ![r] =
                    [Idle EXCEPT !.pc = "touch", !.tok = tok, !.t0 = now]]
  /\ UNCHANGED <<now, ticks, uuid, issued, consumed, replayed, streak,
                 attempts, admitted, client>>

\* the write of the gate's updateLastAccessed() reaches the store
TouchLands(r) ==
  /\ inflight[r].pc = "touch"
  /\ sessions' = [sessions EXCEPT ![inflight[r].tok.sessionId] =
                    updateLastAccessed(@, inflight[r].t0)]
  /\ inflight' = [inflight EXCEPT ![r].pc = "done"]
  /\ UNCHANGED <<now, ticks, users, uuid, issued, resp, consumed, replayed,
                 streak, attempts, admitted, client>>

\* ----------------------------------------------------- POST /logout-all
LogoutAll(tok) ==
  LET code == authenticate(tok, sessions, users, now)
      gated == gateSessions(tok, sessions, users, now) IN
  /\ Quiet
  /\ IF code = "OK"
     THEN /\ sessions' = revokeAllForUser(gated, tok.userId, "user_logout_all")
          /\ users' = [users EXCEPT ![tok.userId] = removeAllSessions(@)]
          /\ resp' = [GateResp("logout-all", tok, code) EXCEPT !.status = 200]
     ELSE /\ sessions' = gated
          /\ UNCHANGED users
          /\ resp' = GateResp("logout-all", tok, code)
  /\ UNCHANGED <<now, ticks, uuid, issued, consumed, replayed, streak, inflight>>

  /\ UNCHANGED <<attempts, admitted, client>>
\* -------------------------------------- DELETE /sessions/:sessionId
\* variant: the filter has no userId
findAnyActive(ss, sid, u) == sid \in DOMAIN ss /\ ss[sid].isActive

\* Session.findOne({sessionId, userId, isActive: true})
findOwnActive(ss, sid, u) ==
  sid \in DOMAIN ss /\ ss[sid].userId = u /\ ss[sid].isActive

RevokeSession(tok, sid) ==
  LET code == authenticate(tok, sessions, users, now)
      gated == gateSessions(tok, sessions, users, now)
      r == [GateResp("revoke", tok, code) EXCEPT !.target = sid] IN
  /\ Quiet
  /\ IF code # "OK"
     THEN /\ sessions' = gated
          /\ UNCHANGED users
          /\ resp' = r
     ELSE IF ~findOwnActive(gated, sid, tok.userId)
     THEN /\ sessions' = gated
          /\ UNCHANGED users
          /\ resp' = [r EXCEPT !.code = "SESSION_NOT_FOUND", !.status = 404]
     ELSE /\ sessions' = [gated EXCEPT ![sid] = deactivate(@, "user_revoked")]
          /\ users' = [users EXCEPT ![tok.userId] = removeSession(@, sid)]
          /\ resp' = [r EXCEPT !.status = 200]
  /\ UNCHANGED <<now, ticks, uuid, issued, consumed, replayed, streak, inflight>>

  /\ UNCHANGED <<attempts, admitted, client>>
\* ------------------------------------------------ PUT /change-password
\* variant: passwordChangedAt is the second of the save
savePasswordUnskewed(usr, pw, t) ==
  [usr EXCEPT !.password = BcryptHash(pw), !.passwordChangedAt = t]

\* user.password = newPassword; save(): the pre-save hook hashes it and
\* stamps passwordChangedAt one second in the past
savePassword(usr, pw, t) ==
  [usr EXCEPT !.password = BcryptHash(pw), !.passwordChangedAt = t - PasswordSkew]

\* variant: change-password revokes nothing
revokeOthersNone(ss, u, cur) == ss

\* Session.updateMany({userId, isActive, sessionId: {$ne: current}}, ...)
revokeOthers(ss, u, cur) ==
  [sid \in DOMAIN ss |->
     IF ss[sid].userId = u /\ ss[sid].isActive /\ sid # cur
     THEN deactivate(ss[sid], "password_changed") ELSE ss[sid]]

ChangePassword(tok, cur, new) ==
  LET code == authenticate(tok, sessions, users, now)
      gated == gateSessions(tok, sessions, users, now) IN
  /\ Quiet
  /\ IF code # "OK"
     THEN /\ sessions' = gated
          /\ UNCHANGED users
          /\ resp' = GateResp("change-password", tok, code)
     ELSE IF ~comparePassword(tok.userId, cur)
     THEN /\ sessions' = gated
          /\ UNCHANGED users
          /\ resp' = [GateResp("change-password", tok, code) EXCEPT
                        !.code = "INVALID_CURRENT_PASSWORD", !.status = 400]
     ELSE /\ users' = [users EXCEPT ![tok.userId] = savePassword(@, new, now)]
          /\ sessions' = revokeOthers(gated, tok.userId, tok.sessionId)
          /\ resp' = [GateResp("change-password", tok, code) EXCEPT !.status = 200]
  /\ UNCHANGED <<now, ticks, uuid, issued, consumed, replayed, streak, inflight>>

  /\ UNCHANGED <<attempts, admitted, client>>
\* ------------------------------------------- account deactivation
\* isActive has no endpoint: it is cleared by a direct write to the store
DeactivateAccount(e) ==
  /\ Quiet
  /\ e \in DOMAIN users
  /\ users[e].isActive
  /\ users' = [users EXCEPT ![e].isActive = FALSE]
  /\ UNCHANGED <<now, ticks, sessions, uuid, issued, resp, consumed, replayed,
                 streak, inflight>>

  /\ UNCHANGED <<attempts, admitted, client>>
\* ------------------------------------------------------------ the client
\* a value read from localStorage is truthy
Stored(tok) == tok.typ # "none"

\* storage.setTokens / setTokens
setTokens(ls, pair) ==
  [ls EXCEPT
     !.accessToken = CHOOSE a \in pair : a.typ = "access",
     !.refreshToken = CHOOSE f \in pair : f.typ = "refresh"]

\* the pairs of tokens the server has handed out in one response
Pairs ==
  {pair \in SUBSET issued :
     /\ Cardinality(pair) = 2
     /\ \E a \in pair : a.typ = "access"
     /\ \E f \in pair : f.typ = "refresh"
     /\ \A a, f \in pair : a.sessionId = f.sessionId /\ a.iat = f.iat}

StorageKeys == {"accessToken", "refreshToken", "user"}

\* an earlier visit has logged in (storage.setTokens, storage.setUser); of
\* the three items those in kept are still in localStorage
SignedIn(pair, kept) ==
  LET ls == [setTokens(NoStorage, pair) EXCEPT
               !.user = (CHOOSE a \in pair : TRUE).userId] IN
  /\ client.localStorage = NoStorage
  /\ client.init = "unmounted"
  /\ client.logouts = 0
  /\ \A r \in Requests : client.calls[r].pc = "idle"
  /\ client' = [client EXCEPT !.localStorage =
       [accessToken |-> IF "accessToken" \in kept THEN ls.accessToken ELSE NoToken,
        refreshToken |-> IF "refreshToken" \in kept THEN ls.refreshToken
                         ELSE NoToken,
        user |-> IF "user" \in kept THEN ls.user ELSE ""]]
  /\ UNCHANGED <<now, ticks, users, sessions, uuid, issued, resp, consumed,
                 replayed, streak, inflight, attempts, admitted>>

\* what the server does with a gated request carrying tok
Gated(tok) ==
  /\ sessions' = gateSessions(tok, sessions, users, now)
  /\ UNCHANGED <<now, ticks, users, uuid, issued, resp, consumed, replayed,
                 streak, inflight, attempts, admitted>>

\* what the server does with a POST /refresh carrying tok
Refreshed(tok) ==
  LET code == refreshCode(tok, sessions, now) IN
  /\ sessions' = refreshSessions(tok, sessions, now)
  /\ issued' = IF code = "OK"
               THEN issued \cup NewTokens(sessions[tok.sessionId].userId,
                                          tok.sessionId, tok.tokenFamily, now)
               ELSE issued
  /\ consumed' = IF code = "OK" THEN consumed \cup {tok} ELSE consumed
  /\ replayed' = IF RotatedAway(tok) THEN replayed \cup {tok.sessionId}
                 ELSE replayed
  /\ UNCHANGED <<now, ticks, users, uuid, resp, streak, inflight, attempts,
                 admitted>>

\* the pair in the body of a 200 of POST /refresh for tok
RefreshedPair(tok) ==
  NewTokens(sessions[tok.sessionId].userId, tok.sessionId, tok.tokenFamily, now)

\* ------------------------------------------------ AuthProvider, on mount
\* authReducer, for the actions that initializeAuth and refreshTokens dispatch
authReducer(st, type, user, tokens, loading) ==
  CASE type = "LOGIN_SUCCESS" ->
         [st EXCEPT !.user = user, !.tokens = tokens,
                    !.isAuthenticated = TRUE, !.isLoading = FALSE]
    [] type = "LOGOUT" ->
         [st EXCEPT !.user = "", !.tokens = {},
                    !.isAuthenticated = FALSE, !.isLoading = FALSE]
    [] type = "TOKEN_REFRESH" -> [st EXCEPT !.tokens = tokens]
    [] type = "SET_LOADING" -> [st EXCEPT !.isLoading = loading]
    [] OTHER -> st

\* the catch blocks: refreshTokens clears the storage and dispatches LOGOUT,
\* initializeAuth clears the storage and dispatches SET_LOADING false
GivenUp(st) ==
  authReducer(authReducer(st, "LOGOUT", "", {}, FALSE),
              "SET_LOADING", "", {}, FALSE)

\* what happens to a fetch: the server answers it, or it fails on the way
Fetches == {"answered", "network error"}

\* initializeAuth up to "await fetch(.../auth/me)"
InitializeAuth ==
  LET ls == client.localStorage IN
  /\ client.init = "unmounted"
  /\ IF Stored(ls.accessToken) /\ Stored(ls.refreshToken) /\ ls.user # ""
     THEN client' = [client EXCEPT !.init = "me", !.sent = ls.accessToken]
     ELSE client' = [client EXCEPT
            !.init = "end",
            !.state = authReducer(@, "SET_LOADING", "", {}, FALSE)]
  /\ UNCHANGED <<now, ticks, users, sessions, uuid, issued, resp, consumed,
                 replayed, streak, inflight, attempts, admitted>>

\* the fetch of /auth/me settles; if the answer is not ok, refreshTokens()
\* runs up to "await fetch(.../auth/refresh)"
MeAnswers(how) ==
  LET ls == client.localStorage
      code == authenticate(client.sent, sessions, users, now) IN
  /\ client.init = "me"
  /\ IF how = "network error"
     THEN /\ client' = [client EXCEPT
                 !.init = "end", !.localStorage = NoStorage,
                 !.state = authReducer(@, "SET_LOADING", "", {}, FALSE)]
          /\ UNCHANGED <<now, ticks, users, sessions, uuid, issued, resp,
                         consumed, replayed, streak, inflight, attempts,
                         admitted>>
     ELSE /\ Gated(client.sent)
          /\ client' =
               IF code = "OK"
               THEN [client EXCEPT
                       !.init = "end",
                       !.state = authReducer(@, "LOGIN_SUCCESS", client.sent.userId,
                                   {ls.accessToken, ls.refreshToken}, FALSE)]
               ELSE IF Stored(ls.refreshToken)
               THEN [client EXCEPT !.init = "refresh", !.sent = ls.refreshToken]
               ELSE [client EXCEPT !.init = "end", !.localStorage = NoStorage,
                                   !.state = GivenUp(@)]

\* the fetch of /auth/refresh settles and refreshTokens() returns or throws
RefreshAnswers(how) ==
  LET code == refreshCode(client.sent, sessions, now) IN
  /\ client.init = "refresh"
  /\ IF how = "network error"
     THEN /\ client' = [client EXCEPT !.init = "end",
                                      !.localStorage = NoStorage,
                                      !.state = GivenUp(@)]
          /\ UNCHANGED <<now, ticks, users, sessions, uuid, issued, resp,
                         consumed, replayed, streak, inflight, attempts,
                         admitted>>
     ELSE /\ Refreshed(client.sent)
          /\ client' =
               IF code = "OK"
               THEN [client EXCEPT
                       !.init = "end",
                       !.localStorage = setTokens(@, RefreshedPair(client.sent)),
                       !.state = authReducer(@, "TOKEN_REFRESH", "",
                                             RefreshedPair(client.sent), FALSE)]
               ELSE [client EXCEPT !.init = "end", !.localStorage = NoStorage,
                                   !.state = GivenUp(@)]

\* ------------------------------------------- services/api.js interceptors
\* variant: the interceptor does not look at _retry
shouldRefreshAgain(status, retry) == status = 401

\* "error.response?.status === 401 && !originalRequest._retry"
shouldRefresh(status, retry) == status = 401 /\ ~retry

\* the status of an answer of the Request Gate
gateStatus(code) == IF code = "OK" THEN 200 ELSE 401

\* clearTokens() and the auth:logout event
LoggedOff(c) ==
  [c EXCEPT !.localStorage = NoStorage, !.logouts = @ + 1]

\* an API call is made: the request interceptor puts the stored access token
\* in the Authorization header
CallSend(r) ==
  /\ client.calls[r].pc = "idle"
  /\ Stored(client.localStorage.accessToken)
  /\ client' = [client EXCEPT !.calls[r] =
       [NoCall EXCEPT !.pc = "sent", !.sends = 1,
                      !.header = client.localStorage.accessToken]]
  /\ UNCHANGED <<now, ticks, users, sessions, uuid, issued, resp, consumed,
                 replayed, streak, inflight, attempts, admitted>>

\* the server answers the call; on an error the response interceptor runs up
\* to "await axios.post(.../auth/refresh)" or to its end
CallAnswers(r) ==
  LET call == client.calls[r]
      code == authenticate(call.header, sessions, users, now)
      refreshToken == client.localStorage.refreshToken IN
  /\ call.pc = "sent"
  /\ Gated(call.header)
  /\ client' =
       IF code = "OK"
       THEN [client EXCEPT !.calls[r].pc = "resolved", !.calls[r].code = code]
       ELSE IF ~shouldRefresh(gateStatus(code), call.retry)
       THEN [client EXCEPT !.calls[r].pc = "rejected", !.calls[r].code = code]
       ELSE IF Stored(refreshToken) /\ code = "TOKEN_EXPIRED"
       THEN [client EXCEPT
               !.calls[r].pc = "refreshing", !.calls[r].code = code,
               !.calls[r].retry = TRUE,
               !.calls[r].refreshToken = refreshToken,
               !.calls[r].refreshes = @ + 1,
               !.calls[r].overlap =
                  \E q \in Requests \ {r} : client.calls[q].pc = "refreshing"]
       ELSE [LoggedOff(client) EXCEPT
               !.calls[r].pc = "rejected", !.calls[r].code = code,
               !.calls[r].retry = TRUE]

\* the server answers the interceptor's refresh: the new pair is stored and
\* the call is sent again, or the catch block logs the user out
CallRefreshAnswers(r) ==
  LET call == client.calls[r]
      code == refreshCode(call.refreshToken, sessions, now)
      pair == RefreshedPair(call.refreshToken) IN
  /\ call.pc = "refreshing"
  /\ Refreshed(call.refreshToken)
  /\ client' =
       IF code = "OK"
       THEN [client EXCEPT
               !.localStorage = setTokens(@, pair),
               !.calls[r].pc = "sent", !.calls[r].sends = @ + 1,
               !.calls[r].header = CHOOSE a \in pair : a.typ = "access"]
       ELSE [LoggedOff(client) EXCEPT
               !.calls[r].pc = "rejected", !.calls[r].code = code]

\* ---------------------------------------------------------- specification
Init ==
  /\ now = 0
  /\ ticks = 0
  /\ users = << >>
  /\ sessions = << >>
  /\ uuid = 0
  /\ issued = {}
  /\ resp = NoResp
  /\ consumed = {}
  /\ replayed = {}
  /\ streak = [e \in Emails |-> 0]
  /\ inflight = [r \in Requests |-> Idle]
  /\ attempts = [r \in Routes |-> << >>]
  /\ admitted = [r \in Routes |-> [a \in Addresses |-> << >>]]
  /\ client = NoClient

Next ==
  \/ Deliver
  \/ \E d \in Jumps : Tick(d, MaxTicks)
  \/ \E e \in Emails, pw \in Passwords : Register(e, pw)
  \/ \E e \in Emails, pw \in Passwords, rm \in BOOLEAN : Login(e, pw, rm)
  \/ \E e \in Emails, pw \in Passwords : RegisterCacheFails(e, pw)
  \/ \E e \in Emails, pw \in Passwords, rm \in BOOLEAN :
        LoginCacheFails(e, pw, rm)
  \/ \E tok \in Presentable : Refresh(tok)
  \/ \E tok \in Bearer : Me(tok)
  \/ \E tok \in Bearer : Sessions(tok)
  \/ \E tok \in Bearer, how \in LogoutOutcomes : Logout(tok, how)
  \/ \E tok \in Bearer : LogoutAll(tok)
  \/ \E tok \in Bearer, sid \in DOMAIN sessions : RevokeSession(tok, sid)
  \/ \E tok \in Bearer, cur \in Passwords, new \in Passwords :
        ChangePassword(tok, cur, new)
  \/ \E e \in Emails : DeactivateAccount(e)

Spec == Init /\ [][Next]_vars

\* The lockout policy: the operations that write failedLoginAttempts and
\* accountLockedUntil (register and login), for one registered account and one
\* unknown email.
NextLockout ==
  \/ Deliver
  \/ \E d \in LockoutJumps : Tick(d, MaxTicks)
  \/ \E pw \in Passwords : Register(Alice, pw)
  \/ \E e \in Emails, pw \in Passwords : Login(e, pw, FALSE)
  \/ DeactivateAccount(Alice)

SpecLockout == Init /\ [][NextLockout]_vars

\* Token rotation: session creation, refresh and a gated read.
LoginOk(e, pw, rm) == LoginCode(e, pw) = "OK" /\ Login(e, pw, rm)

NextRotation ==
  \/ Deliver
  \/ \E d \in Jumps : Tick(d, MaxTicks)
  \/ \E pw \in Passwords : Register(Alice, pw)
  \/ \E pw \in Passwords, rm \in BOOLEAN : LoginOk(Alice, pw, rm)
  \/ \E tok \in Presentable : Refresh(tok)
  \/ \E tok \in Bearer : Me(tok)

SpecRotation == Init /\ [][NextRotation]_vars

\* Refused requests: logins and refreshes of every outcome, for one registered
\* account and one unknown email.
NextFailures ==
  \/ Deliver
  \/ \E d \in LockoutJumps : Tick(d, MaxTicks)
  \/ Register(Alice, "Passw0rd1")
  \/ \E e \in Emails, pw \in Passwords : Login(e, pw, FALSE)
  \/ \E tok \in Presentable : Refresh(tok)
  \/ DeactivateAccount(Alice)

SpecFailures == Init /\ [][NextFailures]_vars

\* Late writes: a logout whose touch lands after its deactivation, next to
\* refreshes handled one await at a time, for one account.
NextLate ==
  \/ Deliver
  \/ \E d \in ConcJumps : Tick(d, MaxTicks)
  \/ Register(Alice, "Passw0rd1")
  \/ LoginOk(Alice, "Passw0rd1", FALSE)
  \/ \E r \in Requests, tok \in Presentable : RefreshFind(r, tok)
  \/ \E r \in Requests : RefreshDetect(r)
  \/ \E r \in Requests : RefreshSave(r)
  \/ \E r \in Requests, tok \in Bearer : LogoutAhead(r, tok)
  \/ \E r \in Requests : TouchLands(r)

SpecLate == Init /\ [][NextLate]_vars

\* Concurrent registrations: up to MaxRequests of them, suspended at their
\* awaits.
NextRegisterRace ==
  \/ \E d \in ConcJumps : Tick(d, GateTicks)
  \/ \E r \in Requests, e \in Emails, pw \in Passwords : RegisterFind(r, e, pw)
  \/ \E r \in Requests : RegisterInsert(r)
  \/ \E r \in Requests : RegisterSession(r)

SpecRegisterRace == Init /\ [][NextRegisterRace]_vars

\* The page is loaded with what an earlier visit left in localStorage, some
\* time after the login.
NextMount ==
  \/ Deliver
  \/ \E d \in Jumps : Tick(d, MaxTicks)
  \/ Register(Alice, "Passw0rd1")
  \/ \E tok \in Presentable : Refresh(tok)
  \/ \E pair \in Pairs, kept \in SUBSET StorageKeys : SignedIn(pair, kept)
  \/ InitializeAuth
  \/ \E how \in Fetches : MeAnswers(how)
  \/ \E how \in Fetches : RefreshAnswers(how)

SpecMount == Init /\ [][NextMount]_vars

\* every await of initializeAuth settles: the server answers the fetch or the
\* fetch fails
Mounting ==
  \/ InitializeAuth
  \/ \E how \in Fetches : MeAnswers(how)
  \/ \E how \in Fetches : RefreshAnswers(how)

SpecMountFair == SpecMount /\ WF_vars(Mounting)

\* API calls of a logged-in client, up to MaxRequests of them under way.
NextCalls ==
  \/ Deliver
  \/ \E d \in GateJumps : Tick(d, MaxTicks)
  \/ Register(Alice, "Passw0rd1")
  \/ \E pair \in Pairs : SignedIn(pair, StorageKeys)
  \/ \E r \in Requests : CallSend(r)
  \/ \E r \in Requests : CallAnswers(r)
  \/ \E r \in Requests : CallRefreshAnswers(r)

SpecCalls == Init /\ [][NextCalls]_vars

\* Concurrent refreshes of the sessions of one account.
NextConcurrent ==
  \/ Deliver
  \/ \E d \in ConcJumps : Tick(d, MaxTicks)
  \/ \E pw \in Passwords : Register(Alice, pw)
  \/ \E pw \in Passwords : LoginOk(Alice, pw, FALSE)
  \/ \E r \in Requests, tok \in Presentable : RefreshFind(r, tok)
  \/ \E r \in Requests : RefreshDetect(r)
  \/ \E r \in Requests : RefreshSave(r)

SpecConcurrent == Init /\ [][NextConcurrent]_vars

\* The Request Gate: the operations that decide one of its checks (token age,
\* session revocation, account status, lock, password change), for one account.
NextGate ==
  \/ Deliver
  \/ \E d \in GateJumps : Tick(d, GateTicks)
  \/ Register(Alice, "Passw0rd1")
  \/ \E pw \in Passwords : Login(Alice, pw, FALSE)
  \/ \E tok \in Bearer : Me(tok)
  \/ \E tok \in Bearer, cur \in Passwords, new \in Passwords :
        ChangePassword(tok, cur, new)
  \/ DeactivateAccount(Alice)

SpecGate == Init /\ [][NextGate]_vars

\* The session lifecycle: every operation that creates, touches or ends a
\* session, for one account with one password. The requests that write behind
\* the gate are sent with admitted tokens (GET /me sends every token), and the
\* number of rotations is capped.
Admitted == {tok \in Bearer : authenticate(tok, sessions, users, now) = "OK"}

RefreshFew(tok) ==
  /\ refreshCode(tok, sessions, now) = "OK" =>
        Cardinality(consumed) < MaxRotations
  /\ Refresh(tok)

NextLifecycle ==
  \/ Deliver
  \/ \E d \in LifeJumps : Tick(d, LifeTicks)
  \/ Register(Alice, "Passw0rd1")
  \/ LoginOk(Alice, "Passw0rd1", FALSE)
  \/ \E tok \in Presentable : RefreshFew(tok)
  \/ \E tok \in Bearer : Me(tok)
  \/ \E tok \in Admitted, how \in LogoutOutcomes : Logout(tok, how)
  \/ \E tok \in Admitted : LogoutAll(tok)
  \/ \E tok \in Admitted, sid \in DOMAIN sessions : RevokeSession(tok, sid)
  \/ \E tok \in Admitted : ChangePassword(tok, "Passw0rd1", "Passw0rd1")

SpecLifecycle == Init /\ [][NextLifecycle]_vars

\* Ending sessions: logout, logout-all and revocation by id, for two accounts,
\* at one instant. The id asked to be revoked is that of any session or one
\* that names no session.
RevocableIds == DOMAIN sessions \cup {NewSid}

NextLogout ==
  \/ Deliver
  \/ \E e \in Emails : Register(e, "Passw0rd1")
  \/ \E e \in Emails : LoginOk(e, "Passw0rd1", FALSE)
  \/ \E tok \in Bearer, how \in LogoutOutcomes : Logout(tok, how)
  \/ \E tok \in Bearer : LogoutAll(tok)
  \/ \E tok \in Bearer, sid \in RevocableIds : RevokeSession(tok, sid)

SpecLogout == Init /\ [][NextLogout]_vars

\* The endpoints whose answers carry documents: register, login, refresh,
\* /me, /sessions and change-password, for two accounts, at one instant.
NextResponses ==
  \/ Deliver
  \/ \E e \in Emails : Register(e, "Passw0rd1")
  \/ \E e \in Emails, pw \in Passwords : Login(e, pw, FALSE)
  \/ \E tok \in Presentable : RefreshFew(tok)
  \/ \E tok \in Bearer : Me(tok)
  \/ \E tok \in Bearer : Sessions(tok)
  \/ \E tok \in Admitted, new \in Passwords :
        ChangePassword(tok, "Passw0rd1", new)

SpecResponses == Init /\ [][NextResponses]_vars

\* Password changes zero, one and two seconds after a token was issued, for
\* one account with up to two sessions.
NextSkew ==
  \/ Deliver
  \/ \E d \in SkewJumps : Tick(d, GateTicks)
  \/ Register(Alice, "Passw0rd1")
  \/ LoginOk(Alice, "Passw0rd1", FALSE)
  \/ \E tok \in Bearer : Me(tok)
  \/ \E tok \in Bearer, new \in Passwords :
        ChangePassword(tok, "Passw0rd1", new)

SpecSkew == Init /\ [][NextSkew]_vars

\* Session.detectTokenReuse as a function of the Session Store and its two
\* arguments: the store is any collection of ReuseSessions sessions over two
\* families, active or not, and the call is made with any family and any id.
Families == {1, 2}

ReuseStore(fam, act) ==
  [sid \in 1..ReuseSessions |->
     [NewSession(Alice, generateRefreshToken(Alice, sid, fam[sid], 0), fam[sid],
                 SessionExpiry, 0) EXCEPT !.isActive = act[sid]]]

InitReuse ==
  /\ now = 0
  /\ ticks = 0
  /\ users = << >>
  /\ \E fam \in [1..ReuseSessions -> Families], act \in [1..ReuseSessions -> BOOLEAN] :
        sessions = ReuseStore(fam, act)
  /\ uuid = ReuseSessions
  /\ issued = {}
  /\ resp = NoResp
  /\ consumed = {}
  /\ replayed = {}
  /\ streak = [e \in Emails |-> 0]
  /\ inflight = [r \in Requests |-> Idle]
  /\ attempts = [r \in Routes |-> << >>]
  /\ admitted = [r \in Routes |-> [a \in Addresses |-> << >>]]
  /\ client = NoClient

\* await Session.detectTokenReuse(tokenFamily, currentSessionId)
DetectTokenReuse(fam, cur) ==
  LET found == detectTokenReuse(sessions, fam, cur) IN
  /\ Quiet
  /\ sessions' = IF found THEN revokeFamily(sessions, fam) ELSE sessions
  /\ resp' = [NoResp EXCEPT !.op = "detectTokenReuse", !.family = fam,
                             !.target = cur, !.found = found]
  /\ UNCHANGED <<now, ticks, users, uuid, issued, consumed, replayed, streak,
                 inflight, attempts, admitted, client>>

NextReuse ==
  \/ Deliver
  \/ \E fam \in Families, cur \in 0..ReuseSessions : DetectTokenReuse(fam, cur)

SpecReuse == InitReuse /\ [][NextReuse]_vars

\* Registration and login for two accounts, where the save of the
\* activeSessions list may fail after the session has been saved.
NextCreate ==
  \/ Deliver
  \/ \E d \in LockoutJumps : Tick(d, GateTicks)
  \/ \E e \in Emails : Register(e, "Passw0rd1")
  \/ \E e \in Emails : RegisterCacheFails(e, "Passw0rd1")
  \/ \E e \in Emails, pw \in Passwords, rm \in BOOLEAN : Login(e, pw, rm)
  \/ \E e \in Emails, rm \in BOOLEAN : LoginCacheFails(e, "Passw0rd1", rm)
  \/ \E tok \in Bearer : Me(tok)

SpecCreate == Init /\ [][NextCreate]_vars

\* Wrong-password logins of one account: some handled in one piece, up to
\* MaxRequests of them suspended between the read of the user and the update
\* of its counter.
NextLoginRace ==
  \/ Deliver
  \/ \E d \in LockoutJumps : Tick(d, GateTicks)
  \/ Register(Alice, "Passw0rd1")
  \/ \E pw \in Passwords : Login(Alice, pw, FALSE)
  \/ \E r \in Requests, pw \in Passwords : LoginFind(r, Alice, pw)
  \/ \E r \in Requests : LoginInc(r)

SpecLoginRace == Init /\ [][NextLoginRace]_vars

\* One account that logs in until the Session Store holds CacheRoom sessions,
\* more than its activeSessions list may hold, and ends sessions in between.
LoginMany(e, pw) ==
  /\ LoginCode(e, pw) = "OK"
  /\ LoginWithin(e, pw, FALSE, CacheRoom)
  /\ Unthrottled("login")

NextCache ==
  \/ Deliver
  \/ Register(Alice, "Passw0rd1")
  \/ LoginMany(Alice, "Passw0rd1")
  \/ \E tok \in Admitted, how \in LogoutOutcomes : Logout(tok, how)
  \/ \E tok \in Admitted, sid \in DOMAIN sessions : RevokeSession(tok, sid)

SpecCache == Init /\ [][NextCache]_vars

\* The throttle of POST /register, for two addresses that register one
\* account over and over.
NextThrottle ==
  \/ Deliver
  \/ \E d \in ThrottleJumps : Tick(d, MaxTicks)
  \/ \E ip \in Addresses : ThrottledRegister(ip, Alice, "Passw0rd1")

SpecThrottle == Init /\ [][NextThrottle]_vars

\* The throttle of POST /login, for one address that tries both passwords of
\* an account that may or may not be registered.
NextThrottleLogin ==
  \/ Deliver
  \/ \E d \in ThrottleJumps : Tick(d, MaxTicks)
  \/ Register(Alice, "Passw0rd1")
  \/ \E pw \in Passwords : ThrottledLogin("10.0.0.1", Alice, pw, FALSE)

SpecThrottleLogin == Init /\ [][NextThrottleLogin]_vars

\* ------------------------------------------------------------ properties
\* a wrong-password login of a registered account has just been answered
LoginFailed ==
  /\ resp.op = "login"
  /\ resp.code = "INVALID_CREDENTIALS"
  /\ resp.email \in DOMAIN users

\* the login just answered was the MaxAttempts-th consecutive wrong password
Crossing == LoginFailed /\ streak[resp.email] = MaxAttempts

FamilyInactive(fam) ==
  \A sid \in DOMAIN sessions :
     sessions[sid].tokenFamily = fam => ~sessions[sid].isActive

\* C1: a Refresh that presents a refresh token already rotated away fails with
\* TOKEN_REUSE_DETECTED and leaves every session of the token's family inactive.
ReuseDetection ==
  (resp.op = "refresh" /\ resp.replay) =>
     /\ resp.code = "TOKEN_REUSE_DETECTED"
     /\ FamilyInactive(resp.tok.tokenFamily)

\* C2: a Refresh that presents a refresh token which an earlier successful
\* Refresh of the session has already exchanged fails with SESSION_INVALID.
PreviousTokenRejected ==
  (resp.op = "refresh" /\ resp.used) => resp.code = "SESSION_INVALID"

\* C3: once a rotated-away refresh token of a session has been presented to
\* Refresh again, GET /auth/me with the access token issued when the session
\* was opened is rejected by the Request Gate.
ReplayKillsAccess ==
  (/\ resp.op = "me"
   /\ resp.sid \in replayed
   /\ resp.tok.iat = sessions[resp.sid].createdAt) => resp.code # "OK"

\* C4: of two Refresh requests that carry the same refresh token and overlap
\* (the second looks the session up before the first has saved the new hash),
\* at most one succeeds.
AtMostOneRefreshSucceeds ==
  \A r \in Requests, q \in Requests :
     (/\ r # q
      /\ inflight[r].pc = "done" /\ inflight[q].pc = "done"
      /\ inflight[r].tok = inflight[q].tok
      /\ inflight[q].overlap
      /\ inflight[r].t0 > inflight[r].tok.iat
      /\ inflight[q].t0 > inflight[q].tok.iat)
     => ~(inflight[r].code = "OK" /\ inflight[q].code = "OK")

\* C5: the MaxAttempts-th consecutive wrong-password login locks the account
\* for LockTime, no earlier one does, and while the lock runs every login is
\* answered ACCOUNT_LOCKED, the correct password included, and no session is
\* created.
Lockout ==
  /\ \A e \in DOMAIN users :
        streak[e] >= MaxAttempts => users[e].accountLockedUntil # NoDate
  /\ Crossing => /\ users[resp.email].accountLockedUntil = now + LockTime
                 /\ isLocked(users[resp.email], now)
  /\ (LoginFailed /\ streak[resp.email] < MaxAttempts /\ resp.lockedUntil # now)
        => users[resp.email].accountLockedUntil = NoDate
  /\ (resp.op = "login" /\ resp.wasLocked) =>
        /\ resp.code = "ACCOUNT_LOCKED"
        /\ Cardinality(DOMAIN sessions) = resp.before
        /\ users[resp.email].activeSessions \in Seq(DOMAIN sessions)

LockoutWitness ==
  /\ resp.op = "login"
  /\ resp.wasLocked
  /\ resp.pwOk
  /\ resp.code = "ACCOUNT_LOCKED"
  /\ users[resp.email].failedLoginAttempts = MaxAttempts

\* C6 as stated: the login that crosses the threshold is answered 423, and so
\* is a login with the correct password while the lock runs.
CrossingAnswered423 ==
  /\ Crossing => resp.status = 423
  /\ (resp.op = "login" /\ resp.wasLocked /\ resp.pwOk) => resp.status = 423

\* C6: the login that crosses the threshold is answered 401
\* INVALID_CREDENTIALS and leaves the account locked; every login while the
\* lock runs, the correct password included, is answered 423 ACCOUNT_LOCKED.
CrossingAnswered401 ==
  /\ Crossing => /\ resp.status = 401
                 /\ isLocked(users[resp.email], now)
  /\ (resp.op = "login" /\ resp.wasLocked) =>
        resp.status = 423 /\ resp.code = "ACCOUNT_LOCKED"

CrossingWitness ==
  /\ Crossing
  /\ resp.status = 401
  /\ resp.lockedUntil = NoDate
  /\ users[resp.email].failedLoginAttempts = MaxAttempts

PasswordChanged == resp.op = "change-password" /\ resp.status = 200

\* access tokens handed out for the other sessions of the user whose password
\* was just changed, still inside their lifetime
OtherSessionTokens ==
  {tok \in issued :
     /\ tok.typ = "access"
     /\ tok.userId = resp.email
     /\ tok.sessionId # resp.sid
     /\ jwtVerify(tok, "access", now) = "ok"}

\* C8: after a successful change-password through session S, every other
\* session of the user is inactive, S is active, and the Request Gate still
\* admits the access token that carried the request.
CurrentSessionSurvives ==
  PasswordChanged =>
     /\ \A sid \in DOMAIN sessions :
           (sessions[sid].userId = resp.email /\ sid # resp.sid)
              => ~sessions[sid].isActive
     /\ sessions[resp.sid].isActive
     /\ authenticate(resp.tok, sessions, users, now) = "OK"

\* C9 as stated: after a successful change-password through session S, an
\* unexpired access token of another session of the user is rejected with
\* PASSWORD_CHANGED.
OtherTokenPasswordChanged ==
  PasswordChanged =>
     \A tok \in OtherSessionTokens :
        authenticate(tok, sessions, users, now) = "PASSWORD_CHANGED"

\* C9: after a successful change-password through session S, every other
\* session of the user is inactive and an unexpired access token of such a
\* session is rejected with SESSION_INVALID, at once and on every later use:
\* a request whose session an earlier request has marked "password_changed"
\* is answered SESSION_INVALID.
OtherTokenSessionInvalid ==
  /\ PasswordChanged =>
        \A tok \in OtherSessionTokens :
           /\ ~sessions[tok.sessionId].isActive
           /\ authenticate(tok, sessions, users, now) = "SESSION_INVALID"
  /\ (/\ resp.op = "me"
      /\ jwtVerify(resp.tok, "access", now) = "ok"
      /\ sessions[resp.sid].reason = "password_changed"
      /\ resp.code # "PASSWORD_CHANGED") => resp.code = "SESSION_INVALID"

OtherTokenWitness ==
  /\ PasswordChanged
  /\ \E tok \in OtherSessionTokens :
        /\ sessions[tok.sessionId].reason = "password_changed"
        /\ tok.iat < users[resp.email].passwordChangedAt
        /\ authenticate(tok, sessions, users, now) = "SESSION_INVALID"

\* the checks of the Request Gate on the request that carries tok
TokenVerifies(tok) == tok.typ = "access" /\ tok.sig = "access" /\ now < tok.exp

SessionAdmits(tok) ==
  \E sid \in DOMAIN sessions :
     /\ sid = tok.sessionId
     /\ sessions[sid].userId = tok.userId
     /\ sessions[sid].isActive
     /\ now < sessions[sid].expiresAt

UserExists(tok) == tok.userId \in DOMAIN users

UserLocked(tok) ==
  /\ users[tok.userId].accountLockedUntil # NoDate
  /\ now < users[tok.userId].accountLockedUntil

PasswordNewer(tok) ==
  /\ users[tok.userId].passwordChangedAt # NoDate
  /\ tok.iat < users[tok.userId].passwordChangedAt

Admissible(tok) ==
  /\ TokenVerifies(tok)
  /\ SessionAdmits(tok)
  /\ UserExists(tok)
  /\ users[tok.userId].isActive
  /\ ~UserLocked(tok)
  /\ ~PasswordNewer(tok)

\* the code the first failed check answers, in the order of the checks
FirstFailure(tok) ==
  IF tok.typ = "none" THEN "TOKEN_MISSING"
  ELSE IF tok.sig = "access" /\ now >= tok.exp THEN "TOKEN_EXPIRED"
  ELSE IF ~TokenVerifies(tok) THEN "TOKEN_INVALID"
  ELSE IF ~SessionAdmits(tok) THEN "SESSION_INVALID"
  ELSE IF ~UserExists(tok) THEN "USER_NOT_FOUND"
  ELSE IF ~users[tok.userId].isActive THEN "ACCOUNT_DEACTIVATED"
  ELSE IF UserLocked(tok) THEN "ACCOUNT_LOCKED"
  ELSE IF PasswordNewer(tok) THEN "PASSWORD_CHANGED"
  ELSE "OK"

\* C10: a protected request passes the Request Gate exactly when its token
\* verifies, its session exists for the user, is active and unexpired, the
\* user exists, is active and not locked, and the password is not newer than
\* the token; otherwise it is answered 401 with the code of the first failed
\* check in the order TOKEN_MISSING, TOKEN_EXPIRED, TOKEN_INVALID,
\* SESSION_INVALID, ACCOUNT_DEACTIVATED, ACCOUNT_LOCKED, PASSWORD_CHANGED, and
\* the handler behind the gate does not run.
GateAdmission ==
  [][resp'.gate # "" =>
       /\ (resp'.gate = "OK") <=> Admissible(resp'.tok)
       /\ resp'.gate = FirstFailure(resp'.tok)
       /\ resp'.gate # "OK" =>
             /\ resp'.code = resp'.gate
             /\ resp'.status = 401
             /\ users' = users]_vars

\* a locked account whose password is also newer than the token: the lock is
\* reported, not the password change
GateWitness ==
  /\ resp.gate = "ACCOUNT_LOCKED"
  /\ PasswordNewer(resp.tok)
  /\ resp.status = 401

Live(sid) == sessions[sid].isActive /\ now < sessions[sid].expiresAt

\* C11: no step of register, login, refresh, logout, logout-all, session
\* revocation, change-password or a gated request makes an inactive session
\* active again, moves a session's expiresAt or removes a session; Refresh and
\* the Request Gate accept a request only for a session that is active and
\* before its expiresAt; every register or login that succeeds creates an
\* active session under an id no session had before.
LifecycleOneWay ==
  [][/\ now' >= now
     /\ DOMAIN sessions \subseteq DOMAIN sessions'
     /\ \A sid \in DOMAIN sessions :
           /\ ~sessions[sid].isActive => ~sessions'[sid].isActive
           /\ sessions'[sid].expiresAt = sessions[sid].expiresAt
     /\ (resp'.op = "refresh" /\ resp'.code = "OK") =>
           resp'.sid \in DOMAIN sessions /\ Live(resp'.sid)
     /\ resp'.gate = "OK" =>
           resp'.sid \in DOMAIN sessions /\ Live(resp'.sid)
     /\ (resp'.op \in {"register", "login"} /\ resp'.code = "OK") =>
           /\ resp'.sid \notin DOMAIN sessions
           /\ resp'.sid \in DOMAIN sessions'
           /\ sessions'[resp'.sid].isActive]_vars

\* an unexpired refresh token whose hash is the stored one is refused because
\* its session is past expiresAt, while an earlier session of the account has
\* been deactivated
LifecycleWitness ==
  /\ resp.op = "refresh"
  /\ resp.code = "SESSION_INVALID"
  /\ jwtVerify(resp.tok, "refresh", now) = "ok"
  /\ sessions[resp.sid].refreshTokenHash = Sha256(resp.tok)
  /\ sessions[resp.sid].isActive
  /\ sessions[resp.sid].expiresAt <= now
  /\ \E sid \in DOMAIN sessions : ~sessions[sid].isActive

\* the request answered in the next state carries a token that verifies for
\* a session which a logout has already deactivated
LoggedOutBefore(tok) ==
  /\ jwtVerify(tok, "access", now) = "ok"
  /\ tok.sessionId \in DOMAIN sessions
  /\ ~sessions[tok.sessionId].isActive
  /\ sessions[tok.sessionId].reason = "user_logout"

\* C12 as stated: a logout with the access token of a session that a logout
\* has already deactivated is not answered with an error and leaves the
\* session inactive.
SecondLogoutSucceeds ==
  [][(resp'.op = "logout" /\ LoggedOutBefore(resp'.tok)) =>
        /\ resp'.status = 200
        /\ ~sessions'[resp'.sid].isActive]_vars

\* C12: a logout with the access token of a session that a logout has already
\* deactivated is refused by the Request Gate with 401 SESSION_INVALID; the
\* session stays inactive and neither store is changed.
SecondLogoutRefused ==
  [][(resp'.op = "logout" /\ LoggedOutBefore(resp'.tok)) =>
        /\ resp'.status = 401
        /\ resp'.code = "SESSION_INVALID"
        /\ ~sessions'[resp'.sid].isActive
        /\ sessions' = sessions
        /\ users' = users]_vars

SecondLogoutWitness ==
  /\ resp.op = "logout"
  /\ resp.code = "SESSION_INVALID"
  /\ jwtVerify(resp.tok, "access", now) = "ok"
  /\ sessions[resp.sid].reason = "user_logout"
  /\ resp.sid \notin {users[resp.email].activeSessions[i] :
                        i \in DOMAIN users[resp.email].activeSessions}

Cached(u) == {users[u].activeSessions[i] : i \in DOMAIN users[u].activeSessions}

\* every session but sid has the same isActive flag and refresh-token hash in
\* the next state
OthersKept(sid) ==
  \A o \in DOMAIN sessions \ {sid} :
     /\ sessions'[o].isActive = sessions[o].isActive
     /\ sessions'[o].refreshTokenHash = sessions[o].refreshTokenHash

\* every account but u is the same in the next state
OtherUsersKept(u) == \A o \in DOMAIN users \ {u} : users'[o] = users[o]

\* C13: a logout answered 200 leaves the calling session inactive with reason
\* user_logout and its id out of the caller's activeSessions; every logout,
\* whatever its answer, leaves the isActive flag and the refresh-token hash of
\* every other session, and every other account, as they were.
LogoutFrame ==
  [][resp'.op = "logout" =>
        /\ resp'.status = 200 =>
              /\ ~sessions'[resp'.sid].isActive
              /\ sessions'[resp'.sid].reason = "user_logout"
              /\ users'[resp'.email].activeSessions
                    = FilterOut(users[resp'.email].activeSessions, resp'.sid)
        /\ OthersKept(resp'.sid)
        /\ OtherUsersKept(resp'.email)
        /\ DOMAIN sessions' = DOMAIN sessions]_vars

\* a logout has succeeded while another session of the same account is active
\* and cached
LogoutWitness ==
  /\ resp.op = "logout"
  /\ resp.status = 200
  /\ resp.sid \notin Cached(resp.email)
  /\ \E o \in DOMAIN sessions \ {resp.sid} :
        /\ sessions[o].userId = resp.email
        /\ sessions[o].isActive
        /\ o \in Cached(resp.email)

\* C14: after a logout-all answered 200 no session of the caller is active
\* and the caller's activeSessions is empty; the sessions of every other
\* account and every other account are as they were.
LogoutAllFrame ==
  [][(resp'.op = "logout-all" /\ resp'.status = 200) =>
        /\ \A sid \in DOMAIN sessions' :
              sessions'[sid].userId = resp'.email => ~sessions'[sid].isActive
        /\ users'[resp'.email].activeSessions = <<>>
        /\ \A sid \in DOMAIN sessions :
              sessions[sid].userId # resp'.email => sessions'[sid] = sessions[sid]
        /\ OtherUsersKept(resp'.email)
        /\ DOMAIN sessions' = DOMAIN sessions]_vars

\* a logout-all has succeeded while another account has an active session
LogoutAllWitness ==
  /\ resp.op = "logout-all"
  /\ resp.status = 200
  /\ sessions[resp.sid].reason = "user_logout_all"
  /\ \E o \in DOMAIN sessions :
        /\ sessions[o].userId # resp.email
        /\ sessions[o].isActive
        /\ o \in Cached(sessions[o].userId)

\* the session asked to be revoked is an active session of the caller
OwnActive(u, sid) ==
  /\ sid \in DOMAIN sessions
  /\ sessions[sid].userId = u
  /\ sessions[sid].isActive

\* C20: a revocation that passes the gate deactivates the named session, and
\* only that one, exactly when it is an active session of the caller, and
\* takes its id out of the caller's activeSessions; for the id of another
\* account's session, of no session or of an inactive session it answers 404
\* SESSION_NOT_FOUND and leaves the isActive flag, the deactivation reason and
\* the refresh-token hash of every session and every activeSessions as they
\* were.
RevocationOwnerScoped ==
  [][(resp'.op = "revoke" /\ resp'.gate = "OK") =>
        LET sid == resp'.target IN
        /\ DOMAIN sessions' = DOMAIN sessions
        /\ OtherUsersKept(resp'.email)
        /\ OthersKept(sid)
        /\ IF OwnActive(resp'.email, sid)
           THEN /\ resp'.status = 200
                /\ ~sessions'[sid].isActive
                /\ sessions'[sid].reason = "user_revoked"
                /\ users'[resp'.email].activeSessions
                      = FilterOut(users[resp'.email].activeSessions, sid)
           ELSE /\ resp'.status = 404
                /\ resp'.code = "SESSION_NOT_FOUND"
                /\ users' = users
                /\ \A o \in DOMAIN sessions :
                      /\ sessions'[o].isActive = sessions[o].isActive
                      /\ sessions'[o].reason = sessions[o].reason
                      /\ sessions'[o].refreshTokenHash
                            = sessions[o].refreshTokenHash]_vars

\* a revocation that named an active session of another account was
\* answered 404
RevocationWitness ==
  /\ resp.op = "revoke"
  /\ resp.gate = "OK"
  /\ resp.status = 404
  /\ resp.target \in DOMAIN sessions
  /\ sessions[resp.target].userId # resp.email
  /\ sessions[resp.target].isActive
  /\ resp.target \in Cached(sessions[resp.target].userId)

\* C15: in every state, for every account that is active and not locked,
\* the answer to a login with a wrong password for it and the answer to a
\* login with an email of no account are the same body: status 401, code
\* INVALID_CREDENTIALS and the same message; a login with an email of no
\* account is answered so.
NoEnumeration ==
  /\ \A e \in DOMAIN users, u \in Emails \ DOMAIN users,
        pw \in Passwords, pu \in Passwords :
        (users[e].isActive /\ ~isLocked(users[e], now) /\ ~comparePassword(e, pw))
           => /\ LoginBody(e, pw) = LoginBody(u, pu)
              /\ LoginBody(e, pw).status = 401
              /\ LoginBody(e, pw).code = "INVALID_CREDENTIALS"
  /\ (resp.op = "login" /\ (resp.email \notin DOMAIN users
                            \/ resp.code = "INVALID_CREDENTIALS")) =>
        /\ resp.status = 401
        /\ resp.code = "INVALID_CREDENTIALS"
        /\ resp.error = "Invalid email or password"

\* a login with an email of no account has been answered while an account
\* that is active, not locked and has failed logins behind it exists
NoEnumerationWitness ==
  /\ resp.op = "login"
  /\ resp.email \notin DOMAIN users
  /\ resp.status = 401
  /\ \E e \in DOMAIN users :
        /\ users[e].isActive
        /\ ~isLocked(users[e], now)
        /\ users[e].failedLoginAttempts > 0

\* C16: no body of an answer of register, login, refresh, /me, /sessions or
\* change-password holds a user object with the password hash, and no session
\* object in an answer holds the refresh token or its hash; the only tokens in
\* a body are the pair the answer hands out, which the store knows by hash
DocumentOps ==
  {"register", "login", "refresh", "me", "sessions", "change-password"}

NoSecretInBody ==
  resp.op \in DocumentOps =>
    /\ \A u \in resp.body.user : "password" \notin DOMAIN u
    /\ \A o \in resp.body.session :
          DOMAIN o \cap {"refreshToken", "refreshTokenHash"} = {}
    /\ \A tok \in resp.body.tokens :
          /\ tok.sessionId = resp.sid
          /\ tok.typ = "refresh" =>
                sessions[resp.sid].refreshTokenHash = Sha256(tok)
    /\ Cardinality(resp.body.tokens) \in {0, 2}

\* a login has been answered with the account's document, read with its
\* password hash, and with the session it opened beside another live one
NoSecretWitness ==
  /\ resp.op = "login"
  /\ resp.status = 200
  /\ resp.body.user # {}
  /\ \E o \in resp.body.session : o.id = resp.sid
  /\ users[resp.email].password = BcryptHash("Passw0rd1")
  /\ \E sid \in DOMAIN sessions : sid # resp.sid /\ Live(sid)

\* the requests of an address that a route's throttle admitted in the
\* interval of length windowMs that starts at time t
AdmittedIn(route, ip, t) ==
  {j \in DOMAIN admitted[route][ip] :
     t <= admitted[route][ip][j] /\ admitted[route][ip][j] < t + windowMs}

\* C17: for every address and every interval of W minutes, the throttle of a
\* route admits at most N requests of the address within the interval
SlidingWindow ==
  \A route \in Routes, ip \in Addresses :
    \A i \in DOMAIN admitted[route][ip] :
      Cardinality(AdmittedIn(route, ip, admitted[route][ip][i]))
        <= maxAttempts(route)

\* the step is the answer to a login request from ip
LoginFrom(ip) ==
  \/ resp'.op = "login" /\ resp'.ip = ip
  \/ admitted'["login"][ip] # admitted["login"][ip]

\* the window of ip is open and holds LoginLimit admitted requests
WindowFull(ip) ==
  /\ ip \in DOMAIN attempts["login"]
  /\ now - attempts["login"][ip].firstAttempt <= windowMs
  /\ attempts["login"][ip].count >= LoginLimit

\* ip has no window, or its window has expired
WindowOver(ip) ==
  \/ ip \notin DOMAIN attempts["login"]
  \/ now - attempts["login"][ip].firstAttempt > windowMs

\* the request was answered 429 with the time left of the window, and
\* neither the window nor the history of admissions changed
Turned(ip) ==
  /\ resp'.status = 429
  /\ resp'.code = "RATE_LIMIT_EXCEEDED"
  /\ resp'.retryAfter = attempts["login"][ip].firstAttempt + windowMs - now
  /\ attempts'["login"][ip] = attempts["login"][ip]
  /\ admitted' = admitted

\* the request went on to the handler and opened a window of its own
Reopened(ip) ==
  /\ resp'.status # 429
  /\ admitted'["login"][ip] = Append(admitted["login"][ip], now)
  /\ attempts'["login"][ip] = [count |-> 1, firstAttempt |-> now]

\* C18, as stated: a request that finds its address with N admitted requests
\* in the current window is answered 429 with retryAfter the time left of the
\* window, a positive number of seconds, and leaves the window as it was; the
\* first request after the window has expired is admitted and opens a window
\* with count 1
RejectionPositive ==
  [][\A ip \in Addresses : LoginFrom(ip) =>
        /\ WindowFull(ip) => Turned(ip) /\ resp'.retryAfter > 0
        /\ WindowOver(ip) => Reopened(ip)]_vars

\* C18, amended: as above, but retryAfter is between 0 and the window length,
\* and it is 0 for a request at the last instant of the window, which is
\* still rejected
RejectionAndReset ==
  [][\A ip \in Addresses : LoginFrom(ip) =>
        /\ WindowFull(ip) =>
              /\ Turned(ip)
              /\ resp'.retryAfter \in 0..windowMs
              /\ resp'.retryAfter = 0 <=>
                    now = attempts["login"][ip].firstAttempt + windowMs
        /\ WindowOver(ip) => Reopened(ip)]_vars

\* a login was turned away at the last instant of a window that holds
\* LoginLimit admitted requests, with a retryAfter of 0
RejectionWitness ==
  /\ resp.op = "login"
  /\ resp.status = 429
  /\ resp.retryAfter = 0
  /\ attempts["login"][resp.ip].count = LoginLimit
  /\ Len(admitted["login"][resp.ip]) = LoginLimit

\* the refresh token that the login which opened session sid handed out, still
\* the session's current one, the session neither logged out nor revoked
FromLogin(tok, sid) ==
  /\ tok \in issued
  /\ tok.typ = "refresh"
  /\ tok.sessionId = sid
  /\ sid \in DOMAIN sessions
  /\ tok.iat = sessions[sid].createdAt
  /\ sessions[sid].isActive
  /\ sessions[sid].refreshTokenHash = Sha256(tok)

\* the session was opened with rememberMe
Remembered(sid) ==
  sessions[sid].expiresAt - sessions[sid].createdAt = SessionExpiryRemember

\* C19: Refresh accepts the refresh token of a login until 30 days after the
\* login if it was made with rememberMe, and until 7 days after it if not
RememberMeLifetime ==
  [][\A sid \in DOMAIN sessions :
       (/\ resp'.op = "refresh"
        /\ FromLogin(resp'.tok, sid)
        /\ now < sessions[sid].createdAt + sessionLifetime(Remembered(sid)))
       => resp'.code = "OK"]_vars

\* a Refresh has just answered with a new pair
Rotated == resp.op = "refresh" /\ resp.code = "OK"

\* C21: the pair a successful Refresh returns carries the session id of the
\* presented refresh token, and its refresh token the same token family; no
\* step removes a session or changes the tokenFamily or the owner stored in it
RotationKeepsIdentity ==
  [][/\ \A sid \in DOMAIN sessions :
          /\ sid \in DOMAIN sessions'
          /\ sessions'[sid].tokenFamily = sessions[sid].tokenFamily
          /\ sessions'[sid].userId = sessions[sid].userId
     /\ Rotated' =>
          /\ Cardinality(resp'.body.tokens) = 2
          /\ \A tok \in resp'.body.tokens :
                /\ tok.sessionId = resp'.tok.sessionId
                /\ tok.typ = "refresh" =>
                      /\ tok.tokenFamily = resp'.tok.tokenFamily
                      /\ tok.tokenFamily = sessions'[tok.sessionId].tokenFamily]_vars

\* a refresh token that itself came out of a rotation has been rotated, while
\* the account has a second session
RotationIdentityWitness ==
  /\ Rotated
  /\ resp.tok.iat > sessions[resp.sid].createdAt
  /\ Cardinality(DOMAIN sessions) = 2

\* the refresh tokens handed out for session sid
HandedOut(sid) ==
  {tok \in issued : tok.typ = "refresh" /\ tok.sessionId = sid}

\* those of them that a Refresh would accept now
AcceptedFor(sid) ==
  {tok \in HandedOut(sid) : refreshCode(tok, sessions, now) = "OK"}

\* C22: for every active session exactly one refresh token is accepted by
\* Refresh: the most recently issued one, whose hash is the stored
\* refreshTokenHash; every token handed out earlier is rejected
ExactlyOneAccepted ==
  \A sid \in DOMAIN sessions : Live(sid) =>
    \E tok \in HandedOut(sid) :
      /\ AcceptedFor(sid) = {tok}
      /\ sessions[sid].refreshTokenHash = Sha256(tok)
      /\ \A other \in HandedOut(sid) : other.iat <= tok.iat

\* the ids in a sequence
Range(seq) == {seq[i] : i \in DOMAIN seq}

NoDuplicates(seq) == Cardinality(Range(seq)) = Len(seq)

\* a login or a registration has just opened session resp.sid
Opened(r) == r.op \in {"login", "register"} /\ r.status \in {200, 201}

\* C23: a user's activeSessions has no duplicates and at most
\* maxConcurrentSessions entries; a login or registration puts the new id last,
\* and the ids it pushes out are older than every id that stays
CacheBounded ==
  [][\A e \in DOMAIN users' :
       LET cache == users'[e].activeSessions
           was == IF e \in DOMAIN users THEN users[e].activeSessions ELSE << >>
       IN /\ NoDuplicates(cache)
          /\ Len(cache) <= MaxConcurrentSessions
          /\ (Opened(resp') /\ resp'.email = e /\ resp # resp') =>
                /\ cache # << >>
                /\ cache[Len(cache)] = resp'.sid
                /\ Range(cache) \ {resp'.sid} \subseteq Range(was)
                /\ \A out \in Range(was) \ Range(cache), kept \in Range(cache) :
                      out < kept
                /\ Len(was) < MaxConcurrentSessions => Range(was) \subseteq Range(cache)]_vars

\* a login was answered when the list was full: an active session of the
\* account is no longer in the list
CacheWitness ==
  /\ Opened(resp)
  /\ Len(users[resp.email].activeSessions) = MaxConcurrentSessions
  /\ \E sid \in DOMAIN sessions :
        /\ sessions[sid].userId = resp.email
        /\ sessions[sid].isActive
        /\ sid \notin Range(users[resp.email].activeSessions)

\* the access tokens of the session that has just changed the password
ChangerTokens ==
  {tok \in issued : tok.typ = "access" /\ tok.sessionId = resp.sid}

\* C24, as stated: once a password change is persisted at second T, an access
\* token issued at second T is stale for changedPasswordAfter and is rejected
\* by the Request Gate with PASSWORD_CHANGED
SameSecondStale ==
  PasswordChanged =>
    \A tok \in ChangerTokens : tok.iat = now =>
       /\ changedPasswordAfter(users[resp.email], tok.iat)
       /\ authenticate(tok, sessions, users, now) = "PASSWORD_CHANGED"

\* C24, amended: once a password change is persisted at second T, a token is
\* stale for changedPasswordAfter exactly if it was issued before second T - 1;
\* a token of the changing session issued at second T or T - 1 is admitted by
\* the Request Gate, an older one is rejected with PASSWORD_CHANGED
SameSecondFresh ==
  PasswordChanged =>
    \A tok \in ChangerTokens :
       /\ changedPasswordAfter(users[resp.email], tok.iat)
             <=> tok.iat < now - PasswordSkew
       /\ authenticate(tok, sessions, users, now) =
             IF tok.iat < now - PasswordSkew THEN "PASSWORD_CHANGED" ELSE "OK"

\* the password was changed in the second in which the token that carried
\* the request was issued, and the account has a token one second older
SameSecondWitness ==
  /\ PasswordChanged
  /\ resp.tok.iat = now
  /\ \E tok \in issued : tok.typ = "access" /\ tok.iat = now - PasswordSkew

\* C25: detectTokenReuse(tokenFamily, currentSessionId) returns true exactly
\* when an active session other than currentSessionId has the family; when it
\* returns true every session of the family, the current one included, is
\* inactive with riskScore 100 and the breach marker, and no other session is
\* touched; when it returns false no session is modified
DetectReuseExact ==
  [][resp'.op = "detectTokenReuse" =>
       LET fam == resp'.family
           cur == resp'.target
       IN /\ resp'.found <=>
                \E sid \in DOMAIN sessions :
                   /\ sid # cur
                   /\ sessions[sid].isActive
                   /\ sessions[sid].tokenFamily = fam
          /\ resp'.found =>
                \A sid \in DOMAIN sessions :
                   IF sessions[sid].tokenFamily = fam
                   THEN /\ ~sessions'[sid].isActive
                        /\ sessions'[sid].riskScore = 100
                        /\ sessions'[sid].breach
                   ELSE sessions'[sid] = sessions[sid]
          /\ ~resp'.found => sessions' = sessions]_vars

\* reuse was found for a call made on behalf of a session of the family that
\* was active itself, with a session of another family left active
DetectReuseWitness ==
  /\ resp.op = "detectTokenReuse"
  /\ resp.found
  /\ resp.target \in DOMAIN sessions
  /\ sessions[resp.target].tokenFamily = resp.family
  /\ sessions[resp.target].breach
  /\ \E sid \in DOMAIN sessions : sessions[sid].isActive

\* the answer of a login or registration whose cache update failed
CacheFailed(r) == r.code \in {"LOGIN_ERROR", "REGISTRATION_ERROR"}

\* C26: every id in a user's activeSessions names a session of that user in
\* the Session Store (the session is saved first); when the cache update of a
\* login or registration fails, the session that was saved is in the store,
\* active and unexpired and not in the list, no token for it has left the
\* server, and no step of login, registration or the Request Gate ends it
SessionBeforeCache ==
  [][/\ \A e \in DOMAIN users' : \A sid \in Range(users'[e].activeSessions) :
          sid \in DOMAIN sessions' /\ sessions'[sid].userId = e
     /\ (CacheFailed(resp') /\ resp' # resp) =>
          /\ resp'.sid \notin DOMAIN sessions
          /\ resp'.sid \in DOMAIN sessions'
          /\ sessions'[resp'.sid].userId = resp'.email
          /\ sessions'[resp'.sid].isActive
          /\ sessions'[resp'.sid].expiresAt > now
          /\ resp'.sid \notin Range(users'[resp'.email].activeSessions)
          /\ issued' = issued
     /\ \A sid \in DOMAIN sessions :
          sid \in DOMAIN sessions' /\ (sessions[sid].isActive => sessions'[sid].isActive)]_vars

\* a login failed at the cache update while the account had another session
\* in its list
SessionBeforeCacheWitness ==
  /\ resp.code = "LOGIN_ERROR"
  /\ sessions[resp.sid].isActive
  /\ users[resp.email].activeSessions # << >>
  /\ resp.sid \notin Range(users[resp.email].activeSessions)

\* C27: the lastAccessedAt touch that the Request Gate starts and does not
\* wait for never changes the outcome of the request: a logout that the gate
\* admits is answered 200, its session is inactive with reason user_logout and
\* is no longer in the list of its user
TouchNeverDecides ==
  [][(resp'.op = "logout" /\ resp'.gate = "OK") =>
        /\ resp'.status = 200
        /\ ~sessions'[resp'.sid].isActive
        /\ sessions'[resp'.sid].reason = "user_logout"
        /\ resp'.sid \notin Range(users'[resp'.email].activeSessions)]_vars

\* the terms of the risk score, for durations in seconds
AgeTerm(d) == IF d > 7 * 24 * 3600 THEN 20 ELSE IF d > 24 * 3600 THEN 10 ELSE 0
InactivityTerm(d) == IF d > 24 * 3600 THEN 15 ELSE IF d > 6 * 3600 THEN 5 ELSE 0

\* session sid is new or its lastAccessedAt has moved in this step
Touched(sid) ==
  \/ sid \notin DOMAIN sessions
  \/ sessions'[sid].lastAccessedAt # sessions[sid].lastAccessedAt

\* C28: when a session is created or its lastAccessedAt changes, riskScore is
\* min(100, age term + inactivity term + fingerprint term) for its age and its
\* inactivity at that moment (every session has a fingerprint); riskScore is
\* always within 0..100 and is above 70 only for a session marked by reuse
\* detection
RiskScoreFormula ==
  [][\A sid \in DOMAIN sessions' :
       /\ sessions'[sid].riskScore \in 0..100
       /\ sessions'[sid].riskScore > 70 => sessions'[sid].breach
       /\ Touched(sid) =>
             sessions'[sid].riskScore =
               Min(100, AgeTerm(now - sessions'[sid].createdAt)
                        + InactivityTerm(now - sessions'[sid].lastAccessedAt))]_vars

\* a session older than a week has been touched
RiskScoreWitness ==
  \E sid \in DOMAIN sessions :
    /\ sessions[sid].riskScore = 20
    /\ sessions[sid].lastAccessedAt = now
    /\ now - sessions[sid].createdAt > WeekSeconds

\* C29: no two sessions share a tokenFamily, and no Refresh, under any
\* interleaving of its steps with other requests, ends in TOKEN_REUSE_DETECTED
\* or marks a session as breached
FamiliesDistinct ==
  /\ \A a \in DOMAIN sessions, b \in DOMAIN sessions :
        a # b => sessions[a].tokenFamily # sessions[b].tokenFamily
  /\ \A r \in Requests : inflight[r].code # "TOKEN_REUSE_DETECTED"
  /\ resp.code # "TOKEN_REUSE_DETECTED"
  /\ \A sid \in DOMAIN sessions : ~sessions[sid].breach

\* two Refresh requests with tokens of two active sessions of one account
\* have both passed the reuse check and succeeded
FamiliesWitness ==
  \E r \in Requests, q \in Requests :
    /\ inflight[r].pc = "done" /\ inflight[r].code = "OK"
    /\ inflight[q].pc = "done" /\ inflight[q].code = "OK"
    /\ inflight[r].tok.sessionId # inflight[q].tok.sessionId
    /\ sessions[inflight[r].tok.sessionId].userId
         = sessions[inflight[q].tok.sessionId].userId

\* C30: whenever the stored failedLoginAttempts of an account is at least
\* MaxAttempts, its accountLockedUntil is set, also when wrong-password logins
\* of the account overlap
CounterImpliesLock ==
  \A e \in DOMAIN users :
    users[e].failedLoginAttempts >= MaxAttempts
      => users[e].accountLockedUntil # NoDate

\* C31: the refresh token a successful Refresh returns differs from the one
\* that was presented, whenever the request is handled
RotationChangesToken ==
  Rotated => resp.tok \notin resp.body.tokens

\* the session named by token tok has reached its expiresAt
PastExpiry(tok) ==
  /\ tok.sessionId \in DOMAIN sessions
  /\ now >= sessions[tok.sessionId].expiresAt

\* C32: a session's expiresAt is set at creation, 7 or 30 days ahead, and no
\* step changes it; from its expiresAt on, neither Refresh nor the Request
\* Gate accepts a request for the session, however recently it was refreshed
ExpiryFixed ==
  [][/\ \A sid \in DOMAIN sessions :
          sessions'[sid].expiresAt = sessions[sid].expiresAt
     /\ \A sid \in DOMAIN sessions' \ DOMAIN sessions :
          sessions'[sid].expiresAt - now \in {SessionExpiry, SessionExpiryRemember}
     /\ (resp' # resp /\ resp'.op = "refresh" /\ PastExpiry(resp'.tok))
          => resp'.code = "SESSION_INVALID" \/ resp'.code = "REFRESH_TOKEN_INVALID"
     /\ (resp' # resp /\ resp'.gate # "" /\ PastExpiry(resp'.tok))
          => resp'.gate # "OK"]_vars

\* a Refresh was refused for a session past its expiresAt, with the session's
\* current refresh token, which a rotation handed out a second earlier
ExpiryWitness ==
  /\ resp.op = "refresh"
  /\ resp.code = "SESSION_INVALID"
  /\ PastExpiry(resp.tok)
  /\ sessions[resp.sid].isActive
  /\ sessions[resp.sid].refreshTokenHash = Sha256(resp.tok)
  /\ jwtVerify(resp.tok, "refresh", now) = "ok"
  /\ resp.tok.iat = now - 1
  /\ resp.tok.iat > sessions[resp.sid].createdAt

\* C33: whenever no request is being handled, every id in an account's
\* activeSessions cache names a session of that account whose isActive flag is
\* true
CacheNamesActive ==
  Quiet =>
    \A u \in DOMAIN users : \A sid \in Cached(u) :
       /\ sid \in DOMAIN sessions
       /\ sessions[sid].userId = u
       /\ sessions[sid].isActive

\* the answers of a login that did not log in, and of a refresh that did not
\* rotate
LoginRefusals == {"INVALID_CREDENTIALS", "ACCOUNT_LOCKED", "ACCOUNT_DEACTIVATED"}
RefreshRefusals ==
  {"REFRESH_TOKEN_MISSING", "REFRESH_TOKEN_INVALID", "SESSION_INVALID"}

\* C34: a login answered INVALID_CREDENTIALS, ACCOUNT_LOCKED or
\* ACCOUNT_DEACTIVATED creates no session and hands out no token, and a Refresh
\* answered REFRESH_TOKEN_MISSING, REFRESH_TOKEN_INVALID or SESSION_INVALID
\* leaves every session as it was
RefusalWritesNothing ==
  [][/\ (resp' # resp /\ resp'.op = "login" /\ resp'.code \in LoginRefusals)
          => /\ sessions' = sessions
             /\ issued' = issued
             /\ uuid' = uuid
             /\ resp'.body.tokens = {}
             /\ resp'.body.session = {}
     /\ (resp' # resp /\ resp'.op = "refresh" /\ resp'.code \in RefreshRefusals)
          => /\ sessions' = sessions
             /\ issued' = issued
             /\ resp'.body.tokens = {}]_vars

\* a refresh token that was rotated away was refused while its session is
\* active, on an account that has a wrong password counted against it
RefusalWitness ==
  /\ resp.op = "refresh"
  /\ resp.code = "SESSION_INVALID"
  /\ resp.replay
  /\ sessions[resp.sid].isActive
  /\ users[Alice].failedLoginAttempts > 0

\* session sid was ended by a logout
LoggedOut(ss, sid) == ~ss[sid].isActive /\ ss[sid].reason = "user_logout"

\* C35: a session that a logout has deactivated stays inactive, with its
\* reason, through every later write: the touch of the gate that lands after
\* the deactivation and the save of a Refresh that found the session active
LateWriteKeepsLogout ==
  [][\A sid \in DOMAIN sessions :
        LoggedOut(sessions, sid) => LoggedOut(sessions', sid)]_vars

\* a session is logged out, and both the touch of the logout's gate and the
\* save of a Refresh that found it active have been written since: the stored
\* hash is that of the token the Refresh handed out
LateWriteWitness ==
  \E r, q \in Requests :
    LET sid == inflight[r].tok.sessionId IN
    /\ inflight[r].pc = "done" /\ inflight[r].tok.typ = "access"
    /\ inflight[q].pc = "done" /\ inflight[q].tok.typ = "refresh"
    /\ inflight[q].code = "OK"
    /\ inflight[q].tok.sessionId = sid
    /\ LoggedOut(sessions, sid)
    /\ sessions[sid].lastAccessedAt > sessions[sid].createdAt
    /\ sessions[sid].refreshTokenHash # Sha256(inflight[q].tok)

\* the registrations of value e that passed the existence check
PassedCheck(e) ==
  {r \in Requests : /\ inflight[r].pc \in {"insert", "session", "done"}
                    /\ inflight[r].email = e
                    /\ inflight[r].code # "USER_EXISTS"}

SessionsOf(e) == {sid \in DOMAIN sessions : sessions[sid].userId = e}

\* requests r and q registered the same value, both passed the existence
\* check and both have been answered
RegisteredTogether(r, q) ==
  /\ r # q
  /\ {r, q} \subseteq PassedCheck(inflight[r].email)
  /\ inflight[r].pc = "done" /\ inflight[q].pc = "done"

\* C36: once the registrations of one email or username that passed the
\* existence check have all been answered, exactly one of them has a 201 and
\* every other one a 409, and the one account they leave has the one session
\* of the 201
OneRegistrationWins ==
  \A e \in Emails :
     (PassedCheck(e) # {} /\ \A r \in PassedCheck(e) : inflight[r].pc = "done")
       => /\ Cardinality({r \in PassedCheck(e) :
                            RegisterStatus(inflight[r].code) = 201}) = 1
          /\ \A r \in PassedCheck(e) :
                RegisterStatus(inflight[r].code) \in {201, 409}
          /\ e \in DOMAIN users
          /\ Cardinality(SessionsOf(e)) = 1
          /\ Len(users[e].activeSessions) = 1

\* two registrations of one value were in flight together and both have been
\* answered, one with DUPLICATE_KEY
RegistrationRaceWitness ==
  \E r, q \in Requests :
     /\ RegisteredTogether(r, q)
     /\ inflight[q].overlap
     /\ inflight[q].code = "DUPLICATE_KEY"
     /\ inflight[r].code = "OK"

\* the refresh token in localStorage is the current one of an active session,
\* and the access token next to it belongs to the same session
StoredPairCurrent ==
  LET ls == client.localStorage IN
  /\ Stored(ls.accessToken) /\ Stored(ls.refreshToken)
  /\ ls.accessToken.sessionId = ls.refreshToken.sessionId
  /\ ls.refreshToken.sessionId \in DOMAIN sessions
  /\ sessions[ls.refreshToken.sessionId].isActive
  /\ sessions[ls.refreshToken.sessionId].refreshTokenHash
       = Sha256(ls.refreshToken)

\* calls r and q were answered TOKEN_EXPIRED and had their refreshes under way
\* together; both calls have come to their end
ExpiredTogether(r, q) ==
  /\ r # q
  /\ client.calls[r].refreshes = 1 /\ client.calls[q].refreshes = 1
  /\ client.calls[q].overlap
  /\ client.calls[r].pc \in {"resolved", "rejected"}
  /\ client.calls[q].pc \in {"resolved", "rejected"}

\* C37: when API calls that failed with TOKEN_EXPIRED together have run their
\* refreshes, no auth:logout event has been dispatched and localStorage holds
\* a token pair the server accepts
ExpiredTogetherSurvive ==
  (\E r, q \in Requests : ExpiredTogether(r, q))
     => client.logouts = 0 /\ StoredPairCurrent

\* C38: once the AuthProvider is mounted isLoading eventually becomes false,
\* and the state is authenticated only with tokens in localStorage
MountEnds ==
  /\ (client.init # "unmounted") ~> (client.state.isLoading = FALSE)
  /\ [](client.state.isAuthenticated =>
          /\ Stored(client.localStorage.accessToken)
          /\ Stored(client.localStorage.refreshToken))

\* C39: a call is sent at most twice and runs at most one refresh, the second
\* sending only after a refresh with _retry set; a retried call that is
\* answered with an error is rejected, with no refresh and no change of
\* localStorage
RetryOnce ==
  [][\A r \in Requests :
        /\ client'.calls[r].sends <= 2
        /\ client'.calls[r].refreshes <= 1
        /\ client'.calls[r].sends = 2 =>
              client'.calls[r].retry /\ client'.calls[r].refreshes = 1
        /\ (/\ client.calls[r].pc = "sent" /\ client.calls[r].retry
            /\ client'.calls[r] # client.calls[r])
             => /\ client'.calls[r].pc \in {"resolved", "rejected"}
                /\ client'.calls[r].refreshes = client.calls[r].refreshes
                /\ client'.localStorage = client.localStorage
                /\ client'.logouts = client.logouts]_vars

\* a call was refreshed and sent again, and the second answer was a 401 for
\* an expired token: the call is rejected after one refresh
RetryOnceWitness ==
  \E r \in Requests :
     /\ client.calls[r].pc = "rejected"
     /\ client.calls[r].retry
     /\ client.calls[r].sends = 2
     /\ client.calls[r].refreshes = 1
     /\ client.calls[r].code = "TOKEN_EXPIRED"
     /\ Stored(client.localStorage.refreshToken)

====
